---- MODULE Spec2Model ----
(***************************************************************************)
(* Model of the normalization, aggregation and percentage-closure engine   *)
(* of compilador_forecast: the locale numeric parsers (curvas_prod.py,     *)
(* pp.py), the VPObra closure and the stacking of curve sources            *)
(* (curvas_prod.py), the work-duration derivation (marco_cronograma.py,    *)
(* marco_modulo.py) and the header normalizers of the report pipelines.    *)
(*                                                                         *)
(* Texts are sequences of one-character strings.  A float that the program *)
(* obtains from a decimal numeral is kept as an exact decimal              *)
(* [num, scale] = num / 10^scale; VPObra values inside the closure are     *)
(* integers in thousandths (the closure rounds everything to 3 decimals).  *)
(***************************************************************************)
EXTENDS Integers, Sequences, FiniteSets, TLC

VARIABLES
    cell,      \* parser: the cell value handed to a parser
    parsed,    \* parser: which parser ran and what it returned
    hdr,       \* headers: the raw header and the pipeline normalizing it
    canon,     \* headers: the column name after the pipeline's normalizer
    grupo,     \* closure: the VPObra values of one group, as read
    fechado,   \* closure: the values written back by the closure
    fontes,    \* stacking: dfs_por_guia, the batch of sources
    pc,        \* stacking: position in empilhar_curvas
    emp,       \* stacking: the treated tables appended so far
    ok_list,   \* stacking: accepted source names
    warn_list, \* stacking: warnings
    stacked,   \* stacking: the table returned
    obras,     \* duration: the table handed to _calculate_work_duration
    duracoes,  \* duration: outcome of _calculate_work_duration
    tabelas,   \* keys: two tables with the same columns
    chaves,    \* keys: what _deduzir_chaves_curva returned for each
    guia,      \* required columns: one source table of one report
    tratado,   \* required columns: what the report made of it
    lote,      \* ingestion: the uploaded files of one batch
    ing,       \* ingestion: progress and outcome of the report's read step
    enviados,  \* file limit: the uploaded files
    lidos,     \* file limit: the files the report went on to read
    cache,     \* cache: the entry of temp_cache_pp for the file name
    leitura    \* cache: the file handed to _read_excel_with_cache, its outcome

vars == <<cell, parsed, hdr, canon, grupo, fechado, fontes, pc, emp, ok_list,
          warn_list, stacked, obras, duracoes, tabelas, chaves, guia, tratado,
          lote, ing, enviados, lidos, cache, leitura>>

parserVars == <<cell, parsed>>
headerVars == <<hdr, canon>>
closureVars == <<grupo, fechado>>
stackVars == <<fontes, pc, emp, ok_list, warn_list, stacked>>
durationVars == <<obras, duracoes>>
keyVars == <<tabelas, chaves>>
requiredVars == <<guia, tratado>>
ingestVars == <<lote, ing>>
limitVars == <<enviados, lidos>>
cacheVars == <<cache, leitura>>
pipelineVars == <<keyVars, requiredVars, ingestVars, limitVars, cacheVars>>

(***************************************************************************)
(* Bounds of the model                                                     *)
(***************************************************************************)
MaxLen == 4        \* longest enumerated cell text

(***************************************************************************)
(* Generic helpers                                                         *)
(***************************************************************************)
RECURSIVE Pow10(_)
Pow10(k) == IF k = 0 THEN 1 ELSE 10 * Pow10(k - 1)

RECURSIVE SeqsUpTo(_, _)
SeqsUpTo(S, n) ==
    IF n = 0 THEN {<<>>}
    ELSE LET shorter == SeqsUpTo(S, n - 1)
         IN shorter \cup {Append(s, x) : s \in {t \in shorter : Len(t) = n - 1}, x \in S}

RECURSIVE Filter(_, _)
Filter(s, keep) ==
    IF s = <<>> THEN <<>>
    ELSE IF Head(s) \in keep THEN <<Head(s)>> \o Filter(Tail(s), keep)
    ELSE Filter(Tail(s), keep)

Digits == {"0", "1", "2", "3", "4", "5", "6", "7", "8", "9"}
Whitespace == {" "}

DigitVal(c) ==
    CASE c = "0" -> 0 [] c = "1" -> 1 [] c = "2" -> 2 [] c = "3" -> 3
      [] c = "4" -> 4 [] c = "5" -> 5 [] c = "6" -> 6 [] c = "7" -> 7
      [] c = "8" -> 8 [] c = "9" -> 9

RECURSIVE DigitsToNat(_)
DigitsToNat(s) ==
    IF s = <<>> THEN 0
    ELSE 10 * DigitsToNat(SubSeq(s, 1, Len(s) - 1)) + DigitVal(s[Len(s)])

\* str.strip(): leading and trailing whitespace removed
RECURSIVE LStrip(_)
LStrip(s) == IF s # <<>> /\ Head(s) \in Whitespace THEN LStrip(Tail(s)) ELSE s

RECURSIVE RStrip(_)
RStrip(s) ==
    IF s # <<>> /\ s[Len(s)] \in Whitespace THEN RStrip(SubSeq(s, 1, Len(s) - 1)) ELSE s

Strip(s) == LStrip(RStrip(s))

\* str.rfind(c): the last position of c, 0 when absent (Python: -1)
RFind(s, c) ==
    LET at == {i \in 1..Len(s) : s[i] = c}
    IN IF at = {} THEN 0 ELSE CHOOSE i \in at : \A j \in at : j <= i

(***************************************************************************)
(* Floats and the Missing marker                                           *)
(***************************************************************************)
NA == [kind |-> "NA", num |-> 0, scale |-> 0]
ValueError == [kind |-> "ValueError", num |-> 0, scale |-> 0]

\* num / 10^scale with the trailing zeros of the fraction removed
RECURSIVE Dec(_, _)
Dec(n, k) ==
    IF k > 0 /\ n % 10 = 0 THEN Dec(n \div 10, k - 1)
    ELSE [kind |-> "float", num |-> n, scale |-> k]

\* float(num_str) for a text made of digits, "-" and ".": Python accepts
\* [-] digits [. digits], [-] digits ".", [-] "." digits and raises
\* ValueError on everything else.
FloatOf(num_str) ==
    LET neg == num_str # <<>> /\ Head(num_str) = "-"
        body == IF neg THEN Tail(num_str) ELSE num_str
        dot == RFind(body, ".")
        ip == IF dot = 0 THEN body ELSE SubSeq(body, 1, dot - 1)
        fp == IF dot = 0 THEN <<>> ELSE SubSeq(body, dot + 1, Len(body))
        wellFormed == /\ \A i \in 1..Len(ip) : ip[i] \in Digits
                      /\ \A i \in 1..Len(fp) : fp[i] \in Digits
                      /\ Len(ip) + Len(fp) > 0
        mag == DigitsToNat(ip) * Pow10(Len(fp)) + DigitsToNat(fp)
    IN IF wellFormed THEN Dec(IF neg THEN 0 - mag ELSE mag, Len(fp)) ELSE ValueError

\* mutant of TryFloat: float(num_str) outside any try block
TryFloat_uncaught(num_str) == FloatOf(num_str)

\* try: return float(num_str) / except Exception: return pd.NA
TryFloat(num_str) ==
    LET r == FloatOf(num_str) IN IF r = ValueError THEN NA ELSE r

\* val / 100.0
Div100(v) == IF v.kind = "float" THEN Dec(v.num, v.scale + 2) ELSE v

(***************************************************************************)
(* Cell values                                                             *)
(***************************************************************************)
\* A cell is blank (NaN), a text, or a value the reader already typed as a
\* number.
Blank == [kind |-> "blank", s |-> <<>>, v |-> NA]
Text(s) == [kind |-> "text", s |-> s, v |-> NA]
Num(v) == [kind |-> "num", s |-> <<>>, v |-> v]

DigitChar(d) ==
    CASE d = 0 -> "0" [] d = 1 -> "1" [] d = 2 -> "2" [] d = 3 -> "3"
      [] d = 4 -> "4" [] d = 5 -> "5" [] d = 6 -> "6" [] d = 7 -> "7"
      [] d = 8 -> "8" [] d = 9 -> "9"

RECURSIVE NatToDigits(_)
NatToDigits(n) ==
    IF n < 10 THEN <<DigitChar(n)>>
    ELSE Append(NatToDigits(n \div 10), DigitChar(n % 10))

RECURSIVE ZeroPad(_, _)
ZeroPad(s, width) == IF Len(s) >= width THEN s ELSE ZeroPad(<<"0">> \o s, width)

\* str(value) of a float below 1e16: positional notation with at least one
\* fractional digit, scientific notation when the decimal exponent is below -4
StrOfFloat(v) ==
    LET mag == IF v.num < 0 THEN 0 - v.num ELSE v.num
        sign == IF v.num < 0 THEN <<"-">> ELSE <<>>
        ds == NatToDigits(mag)
        expo == Len(ds) - 1 - v.scale
    IN IF mag = 0 THEN <<"0", ".", "0">>
       ELSE IF expo < 0 - 4
            THEN sign \o <<Head(ds)>>
                      \o (IF Len(ds) > 1 THEN <<".">> \o Tail(ds) ELSE <<>>)
                      \o <<"e", "-">> \o ZeroPad(NatToDigits(0 - expo), 2)
       ELSE sign \o NatToDigits(mag \div Pow10(v.scale)) \o <<".">>
                 \o (IF v.scale = 0 THEN <<"0">>
                     ELSE ZeroPad(NatToDigits(mag % Pow10(v.scale)), v.scale))

\* str(value) of a non-blank cell
StrOf(value) == IF value.kind = "num" THEN StrOfFloat(value.v) ELSE value.s

NumChars == Digits \cup {",", ".", "-"}

\* mutant of _parse_number_br: the last comma is the decimal point whenever
\* the text has a comma, also when a period follows it
_parse_number_br_comma_decimal(value) ==
    IF value.kind = "blank" THEN NA
    ELSE IF value.kind = "num" THEN value.v
    ELSE LET s == Filter(Strip(StrOf(value)), NumChars)
             last_comma == RFind(s, ",")
             last_dot == RFind(s, ".")
             p == IF last_comma # 0 THEN last_comma ELSE last_dot
             int_part == Filter(SubSeq(s, 1, p - 1), Digits \cup {"-"})
             frac_part == Filter(SubSeq(s, p + 1, Len(s)), Digits)
         IN IF s \in {<<>>, <<"-">>, <<",">>, <<".">>} THEN NA
            ELSE IF p = 0 THEN TryFloat(s)
            ELSE TryFloat(int_part \o (IF frac_part # <<>> THEN <<".">> \o frac_part
                                       ELSE <<>>))

\* curvas_prod._parse_number_br
_parse_number_br(value) ==
    IF value.kind = "blank" THEN NA
    ELSE IF value.kind = "num" THEN value.v
    ELSE LET s0 == Strip(StrOf(value)) IN
         IF s0 = <<>> THEN NA
         ELSE LET s == Filter(s0, NumChars) IN
              IF s \in {<<>>, <<"-">>, <<",">>, <<".">>} THEN NA
              ELSE LET last_comma == RFind(s, ",")
                       last_dot == RFind(s, ".")
                   IN IF last_comma = 0 /\ last_dot = 0 THEN TryFloat(s)
                      ELSE LET p == IF last_comma > last_dot THEN last_comma ELSE last_dot
                               int_part == Filter(SubSeq(s, 1, p - 1), Digits \cup {"-"})
                               frac_part == Filter(SubSeq(s, p + 1, Len(s)), Digits)
                               num_str == int_part \o
                                          (IF frac_part # <<>> THEN <<".">> \o frac_part
                                           ELSE <<>>)
                           IN TryFloat(num_str)

\* pp.parse_number_br
parse_number_br(value) ==
    IF value.kind = "blank" THEN NA
    ELSE LET s0 == Strip(StrOf(value)) IN
         IF s0 = <<>> THEN NA
         ELSE LET s == Filter(s0, NumChars) IN
              IF s \in {<<>>, <<"-">>, <<",">>, <<".">>} THEN NA
              ELSE LET last_comma == RFind(s, ",")
                       last_dot == RFind(s, ".")
                       p == IF last_comma > last_dot THEN last_comma ELSE last_dot
                       \* s.rsplit(dec, 1): one part when dec does not occur
                       two == p # 0
                       part0 == IF two THEN SubSeq(s, 1, p - 1) ELSE s
                       part1 == IF two THEN SubSeq(s, p + 1, Len(s)) ELSE <<>>
                       num_str == Filter(part0, Digits \cup {"-"}) \o
                                  (IF two THEN <<".">> \o Filter(part1, Digits) ELSE <<>>)
                   IN TryFloat(num_str)

\* mutant of _parse_number_br_pct: the "%" of the text is ignored
_parse_number_br_pct_never_divides(value) ==
    IF value.kind = "blank" THEN NA ELSE _parse_number_br(Text(Strip(StrOf(value))))

\* curvas_prod._parse_number_br_pct
_parse_number_br_pct(value) ==
    IF value.kind = "blank" THEN NA
    ELSE LET s == Strip(StrOf(value))
             has_pct == \E i \in 1..Len(s) : s[i] = "%"
             \* val = _parse_number_br(s), bound once
         IN CHOOSE r \in {IF val = NA THEN NA ELSE IF has_pct THEN Div100(val) ELSE val :
                              val \in {_parse_number_br(Text(s))}} : TRUE

(***************************************************************************)
(* Parser specification: a cell is drawn, one of the parsers is applied    *)
(***************************************************************************)
Alphabet == {"0", "1", "5", ",", ".", "-", "%", " ", "R"}

SpecTexts ==
    { <<"1", ".", "2", "3", "4", ",", "5", "6">>,
      <<"1", ",", "2", "3", "4", ".", "5", "6">>,
      <<"1", "2", "%">>,
      <<"0", ".", "3", "4">>,
      <<"3", "4", "%">>,
      <<"R", "$", " ", "1", ".", "2", "3", "4", ",", "5", "0">>,
      <<"-", "1", ".", "2", "3", "4", ",", "5", "6">>,
      <<"1", ",", "0", "1", "%">> }

NumCells == {Num(Dec(0, 0)), Num(Dec(3, 0)), Num(Dec(125, 1)), Num(Dec(0 - 34, 2)),
             Num(Dec(1, 4)), Num(Dec(1, 5)), Num(Dec(25, 6))}

Cells ==
    {Blank} \cup NumCells
        \cup {Text(s) : s \in SeqsUpTo(Alphabet, MaxLen) \cup SpecTexts}

Pending == [fn |-> "none", out |-> NA]

IdleParser == cell = Blank /\ parsed = [fn |-> "idle", out |-> NA]
IdleHeader == hdr = <<>> /\ canon = [by |-> "idle", name |-> <<>>]
IdleClosure == grupo = <<>> /\ fechado = <<>>
IdleStack ==
    /\ fontes = <<>> /\ pc = "idle" /\ emp = <<>> /\ ok_list = <<>>
    /\ warn_list = <<>> /\ stacked = <<>>
IdleDuration == obras = <<>> /\ duracoes = [status |-> "idle"]
IdleKeys == tabelas = <<>> /\ chaves = <<>>
IdleRequired == guia = [by |-> "idle"] /\ tratado = [status |-> "idle"]
IdleIngest == lote = <<>> /\ ing = [at |-> "idle"]
IdleLimit == enviados = <<>> /\ lidos = [by |-> "idle"]
IdleCache == cache = [state |-> "idle"] /\ leitura = [status |-> "idle"]
IdlePipelines == IdleKeys /\ IdleRequired /\ IdleIngest /\ IdleLimit /\ IdleCache

InitParse ==
    /\ cell \in Cells
    /\ parsed = Pending
    /\ IdleHeader /\ IdleClosure /\ IdleStack /\ IdleDuration /\ IdlePipelines

ParseCurvas ==
    /\ parsed = Pending
    /\ parsed' = [fn |-> "_parse_number_br", out |-> _parse_number_br(cell)]
    /\ UNCHANGED <<cell, headerVars, closureVars, pipelineVars, stackVars, durationVars>>

ParsePP ==
    /\ parsed = Pending
    /\ parsed' = [fn |-> "parse_number_br", out |-> parse_number_br(cell)]
    /\ UNCHANGED <<cell, headerVars, closureVars, pipelineVars, stackVars, durationVars>>

ParsePct ==
    /\ parsed = Pending
    /\ parsed' = [fn |-> "_parse_number_br_pct", out |-> _parse_number_br_pct(cell)]
    /\ UNCHANGED <<cell, headerVars, closureVars, pipelineVars, stackVars, durationVars>>

NextParse == ParseCurvas \/ ParsePP \/ ParsePct

SpecParse == InitParse /\ [][NextParse]_vars

(***************************************************************************)
(* Claims about the parsers                                                *)
(***************************************************************************)
Separators == {",", "."}

\* position of the rightmost separator of a text, 0 when it has none
LastSep(s) ==
    LET at == {i \in 1..Len(s) : s[i] \in Separators}
    IN IF at = {} THEN 0 ELSE CHOOSE i \in at : \A j \in at : j <= i

DigitsBefore(s) == Filter(SubSeq(s, 1, LastSep(s) - 1), Digits)
DigitsAfter(s) == Filter(SubSeq(s, LastSep(s) + 1, Len(s)), Digits)
SignsAndDigitsBefore(s) == Filter(SubSeq(s, 1, LastSep(s) - 1), Digits \cup {"-"})

\* <digits before the rightmost separator>.<digits after it>
RightmostDecimal(s) ==
    Dec(DigitsToNat(DigitsBefore(s)) * Pow10(Len(DigitsAfter(s)))
            + DigitsToNat(DigitsAfter(s)),
        Len(DigitsAfter(s)))

Negated(v) == [v EXCEPT !.num = 0 - v.num]

PlainParserRan == parsed.fn \in {"_parse_number_br", "parse_number_br"}
HasSeparator == cell.kind = "text" /\ LastSep(cell.s) # 0
HasDigit(s) == \E i \in 1..Len(s) : s[i] \in Digits
MisplacedMinus(s) ==
    \E i \in 2..Len(SignsAndDigitsBefore(s)) : SignsAndDigitsBefore(s)[i] = "-"
LeadingMinus(s) ==
    SignsAndDigitsBefore(s) # <<>> /\ Head(SignsAndDigitsBefore(s)) = "-"

\* C5 as stated: for every text with at least one separator both plain
\* parsers return <digits before the rightmost separator>.<digits after it>.
C5_RightmostSeparatorAlways ==
    (PlainParserRan /\ HasSeparator) => parsed.out = RightmostDecimal(cell.s)

\* C5 amended: for every text with at least one separator both plain parsers
\* take the rightmost separator as the decimal point and drop every other
\* separator: the result is Missing when the text has no digit or has a minus
\* sign after the first kept character before that separator, otherwise it is
\* <digits before>.<digits after>, negated when the kept characters before
\* the separator start with a minus.
C5_RightmostSeparator ==
    (PlainParserRan /\ HasSeparator) =>
        parsed.out =
            IF ~HasDigit(cell.s) \/ MisplacedMinus(cell.s) THEN NA
            ELSE IF LeadingMinus(cell.s) THEN Negated(RightmostDecimal(cell.s))
            ELSE RightmostDecimal(cell.s)

C5_Witness ==
    /\ cell = Text(<<"1", ".", "2", "3", "4", ",", "5", "6">>)
    /\ parsed = [fn |-> "_parse_number_br", out |-> Dec(123456, 2)]

\* C6: the plain parsers are total: every cell value yields a float or
\* Missing, the ValueError of float() never escapes, and a blank cell or a
\* text without any digit (empty, separators only, stray symbols) is Missing.
C6_ParserTotal ==
    PlainParserRan =>
        /\ parsed.out.kind \in {"float", "NA"}
        /\ (cell.kind = "blank" \/ (cell.kind = "text" /\ ~HasDigit(cell.s)))
               => parsed.out = NA

C6_Witness ==
    /\ cell = Text(<<"1", "-", "5">>)
    /\ FloatOf(cell.s) = ValueError
    /\ parsed = [fn |-> "parse_number_br", out |-> NA]

\* C7: for every cell text t, _parse_number_br_pct(t) is _parse_number_br(t)
\* divided by 100 when t contains "%", _parse_number_br(t) itself otherwise,
\* and it is Missing exactly when _parse_number_br(t) is.
C7_PercentVariant ==
    (parsed.fn = "_parse_number_br_pct" /\ cell.kind = "text") =>
        /\ parsed.out = IF "%" \in {cell.s[i] : i \in 1..Len(cell.s)}
                        THEN Div100(_parse_number_br(cell))
                        ELSE _parse_number_br(cell)
        /\ (parsed.out = NA) <=> (_parse_number_br(cell) = NA)

C7_Witness ==
    /\ cell = Text(<<"1", "2", "%">>)
    /\ parsed = [fn |-> "_parse_number_br_pct", out |-> Dec(12, 2)]

(***************************************************************************)
(* Column headers.  An accented letter is one token: "c," is c-cedilla,    *)
(* "a~" a-tilde, "i'" i-acute, "e'" e-acute (and their capitals).          *)
(***************************************************************************)
Col_NET == <<"N", "E", "T">>
Col_Nome == <<"N", "o", "m", "e">>
Col_Duracao == <<"D", "u", "r", "a", "c,", "a~", "o">>
Col_Inicio == <<"I", "n", "i'", "c", "i", "o">>
Col_Termino == <<"T", "e'", "r", "m", "i", "n", "o">>
Col_CustoObra == <<"C", "u", "s", "t", "o", " ", "O", "b", "r", "a">>
Col_Obra == <<"O", "b", "r", "a">>
Col_IdEmpreendimento == <<"I", "d", "E", "m", "p", "r", "e", "e", "n", "d", "i", "m", "e", "n", "t", "o">>
Col_SimulacaoId == <<"S", "i", "m", "u", "l", "a", "c", "a", "o", "I", "d">>
Col_M == <<"M">>
Col_Custo == <<"C", "u", "s", "t", "o">>
Col_IdModulo == <<"I", "d", "M", "o", "d", "u", "l", "o">>
Col_DataReferencia == <<"D", "a", "t", "a", "R", "e", "f", "e", "r", "e", "n", "c", "i", "a">>
Col_VPCurva == <<"V", "P", "C", "u", "r", "v", "a">>
Col_PesoModulo == <<"P", "e", "s", "o", "M", "o", "d", "u", "l", "o">>
Col_Unidades == <<"U", "n", "i", "d", "a", "d", "e", "s">>
Col_VPModulo == <<"V", "P", "M", "o", "d", "u", "l", "o">>
Col_VPObra == <<"V", "P", "O", "b", "r", "a">>
Col_Fonte == <<"F", "o", "n", "t", "e">>

Key_NET == <<"N", "E", "T">>
Key_NOME == <<"N", "O", "M", "E">>
Key_DURACAO == <<"D", "U", "R", "A", "C", "A", "O">>
Key_DURACAO_DIAS == <<"D", "U", "R", "A", "C", "A", "O", " ", "(", "D", "I", "A", "S", ")">>
Key_INICIO == <<"I", "N", "I", "C", "I", "O">>
Key_INICIO_ACC == <<"I", "N", "I'", "C", "I", "O">>
Key_TERMINO == <<"T", "E", "R", "M", "I", "N", "O">>
Key_TERMINO_ACC == <<"T", "E'", "R", "M", "I", "N", "O">>
Key_CUSTO == <<"C", "U", "S", "T", "O">>
Key_CUSTO_OBRA == <<"C", "U", "S", "T", "O", " ", "O", "B", "R", "A">>
Key_OBRA == <<"O", "B", "R", "A">>
Key_NOME_OBRA == <<"N", "O", "M", "E", " ", "O", "B", "R", "A">>
Key_IDEMPREENDIMENTO == <<"I", "D", "E", "M", "P", "R", "E", "E", "N", "D", "I", "M", "E", "N", "T", "O">>
Key_SIMULACAOID == <<"S", "I", "M", "U", "L", "A", "C", "A", "O", "I", "D">>
Key_ID_SIMULACAO_SP == <<"I", "D", " ", "S", "I", "M", "U", "L", "A", "C", "A", "O">>
Key_ID_SIMULACAO == <<"I", "D", "_", "S", "I", "M", "U", "L", "A", "C", "A", "O">>
Key_M == <<"M">>
Key_MODULO == <<"M", "O", "D", "U", "L", "O">>

\* marco_cronograma._normalize_columns: canon_map
canon_map_cronograma_keys ==
    {Key_NET, Key_NOME, Key_DURACAO, Key_DURACAO_DIAS, Key_INICIO, Key_INICIO_ACC,
     Key_TERMINO, Key_TERMINO_ACC, Key_CUSTO, Key_CUSTO_OBRA, Key_OBRA, Key_NOME_OBRA, Key_IDEMPREENDIMENTO, Key_SIMULACAOID, Key_ID_SIMULACAO_SP, Key_ID_SIMULACAO}
canon_map_cronograma(k) ==
    CASE k = Key_NET -> Col_NET
      [] k = Key_NOME -> Col_Nome
      [] k = Key_DURACAO -> Col_Duracao
      [] k = Key_DURACAO_DIAS -> Col_Duracao
      [] k = Key_INICIO -> Col_Inicio
      [] k = Key_INICIO_ACC -> Col_Inicio
      [] k = Key_TERMINO -> Col_Termino
      [] k = Key_TERMINO_ACC -> Col_Termino
      [] k = Key_CUSTO -> Col_CustoObra
      [] k = Key_CUSTO_OBRA -> Col_CustoObra
      [] k = Key_OBRA -> Col_Obra
      [] k = Key_NOME_OBRA -> Col_Obra
      [] k = Key_IDEMPREENDIMENTO -> Col_IdEmpreendimento
      [] k = Key_SIMULACAOID -> Col_SimulacaoId
      [] k = Key_ID_SIMULACAO_SP -> Col_SimulacaoId
      [] k = Key_ID_SIMULACAO -> Col_SimulacaoId

\* marco_modulo._normalize_columns: canon_map
canon_map_modulo_keys ==
    {Key_NET, Key_NOME, Key_DURACAO, Key_INICIO, Key_INICIO_ACC,
     Key_TERMINO, Key_TERMINO_ACC, Key_CUSTO, Key_OBRA, Key_NOME_OBRA, Key_IDEMPREENDIMENTO, Key_SIMULACAOID}
canon_map_modulo(k) ==
    CASE k = Key_NET -> Col_NET
      [] k = Key_NOME -> Col_Nome
      [] k = Key_DURACAO -> Col_Duracao
      [] k = Key_INICIO -> Col_Inicio
      [] k = Key_INICIO_ACC -> Col_Inicio
      [] k = Key_TERMINO -> Col_Termino
      [] k = Key_TERMINO_ACC -> Col_Termino
      [] k = Key_CUSTO -> Col_CustoObra
      [] k = Key_OBRA -> Col_Obra
      [] k = Key_NOME_OBRA -> Col_Obra
      [] k = Key_IDEMPREENDIMENTO -> Col_IdEmpreendimento
      [] k = Key_SIMULACAOID -> Col_SimulacaoId

\* marco_parede._normalize_columns: canon_map
canon_map_parede_keys ==
    {Key_NET, Key_NOME, Key_DURACAO, Key_INICIO, Key_INICIO_ACC,
     Key_TERMINO, Key_TERMINO_ACC, Key_CUSTO_OBRA, Key_OBRA, Key_NOME_OBRA, Key_IDEMPREENDIMENTO, Key_SIMULACAOID, Key_M, Key_MODULO}
canon_map_parede(k) ==
    CASE k = Key_NET -> Col_NET
      [] k = Key_NOME -> Col_Nome
      [] k = Key_DURACAO -> Col_Duracao
      [] k = Key_INICIO -> Col_Inicio
      [] k = Key_INICIO_ACC -> Col_Inicio
      [] k = Key_TERMINO -> Col_Termino
      [] k = Key_TERMINO_ACC -> Col_Termino
      [] k = Key_CUSTO_OBRA -> Col_CustoObra
      [] k = Key_OBRA -> Col_Obra
      [] k = Key_NOME_OBRA -> Col_Obra
      [] k = Key_IDEMPREENDIMENTO -> Col_IdEmpreendimento
      [] k = Key_SIMULACAOID -> Col_SimulacaoId
      [] k = Key_M -> Col_M
      [] k = Key_MODULO -> Col_M

LowerChars ==
    <<"a", "b", "c", "d", "e", "f", "g", "h", "i", "j", "k", "l", "m",
      "n", "o", "p", "q", "r", "s", "t", "u", "v", "w", "x", "y", "z",
      "c,", "a~", "i'", "e'">>
UpperChars ==
    <<"A", "B", "C", "D", "E", "F", "G", "H", "I", "J", "K", "L", "M",
      "N", "O", "P", "Q", "R", "S", "T", "U", "V", "W", "X", "Y", "Z",
      "C,", "A~", "I'", "E'">>

\* str.upper() / str.lower() of one character
UpperChar(c) ==
    IF \E i \in 1..Len(LowerChars) : LowerChars[i] = c
    THEN UpperChars[CHOOSE i \in 1..Len(LowerChars) : LowerChars[i] = c]
    ELSE c
LowerChar(c) ==
    IF \E i \in 1..Len(UpperChars) : UpperChars[i] = c
    THEN LowerChars[CHOOSE i \in 1..Len(UpperChars) : UpperChars[i] = c]
    ELSE c

Upper(s) == [i \in 1..Len(s) |-> UpperChar(s[i])]
Lower(s) == [i \in 1..Len(s) |-> LowerChar(s[i])]

\* the base letter of an accented letter: what NFKD followed by
\* encode("ASCII", "ignore") leaves of it (the combining mark is dropped)
BaseLetter(c) ==
    CASE c = "c," -> "c" [] c = "a~" -> "a" [] c = "i'" -> "i" [] c = "e'" -> "e"
      [] c = "C," -> "C" [] c = "A~" -> "A" [] c = "I'" -> "I" [] c = "E'" -> "E"
      [] OTHER -> c

\* unicodedata.normalize("NFKD", s).encode("ASCII", "ignore").decode("ASCII")
AsciiFold(s) == [i \in 1..Len(s) |-> BaseLetter(s[i])]

\* re.sub(r"\s+", " ", s): every run of whitespace becomes one space
RECURSIVE CollapseSpaces(_)
CollapseSpaces(s) ==
    IF Len(s) < 2 THEN s
    ELSE IF s[1] \in Whitespace /\ s[2] \in Whitespace THEN CollapseSpaces(Tail(s))
    ELSE <<IF s[1] \in Whitespace THEN " " ELSE s[1]>> \o CollapseSpaces(Tail(s))

\* _strip_accents_upper (marco_cronograma, marco_modulo, marco_parede)
_strip_accents_upper(s) == Upper(Strip(CollapseSpaces(AsciiFold(s))))

\* marco_cronograma._normalize_columns on one header of a non-empty table
_normalize_columns_cronograma(c) ==
    LET key == _strip_accents_upper(c)
    IN IF key \in canon_map_cronograma_keys THEN canon_map_cronograma(key) ELSE c

\* marco_modulo._normalize_columns on one header of a non-empty table
_normalize_columns_modulo(c) ==
    LET key == _strip_accents_upper(c)
    IN IF key \in canon_map_modulo_keys THEN canon_map_modulo(key) ELSE c

\* marco_parede._normalize_columns on one header of a non-empty table
_normalize_columns_parede(c) ==
    LET key == _strip_accents_upper(c)
    IN IF key \in canon_map_parede_keys THEN canon_map_parede(key) ELSE c

\* curvas_prod._padronizar_colunas on one header: c.strip()
_padronizar_colunas(c) == Strip(c)

\* pp.selecionar_e_tratar_colunas_pp looks the required names up in
\* df.columns as read: no header is renamed
colunas_pp(c) == c

\* the input columns each report's table is built from
TARGET_COLS_cronograma ==
    {Col_NET, Col_Nome, Col_Duracao, Col_Inicio, Col_Termino, Col_CustoObra, Col_Obra,
     Col_IdEmpreendimento, Col_SimulacaoId}
COLUNAS_modulo ==
    {Col_NET, Col_Nome, Col_Duracao, Col_Inicio, Col_Termino, Col_CustoObra, Col_Obra,
     Col_IdEmpreendimento, Col_SimulacaoId}
TARGET_COLS_parede ==
    {Col_NET, Col_Nome, Col_Duracao, Col_Inicio, Col_Termino, Col_Obra, Col_M,
     Col_IdEmpreendimento, Col_SimulacaoId}
CURVE_REQUIRED_COLS ==
    {Col_IdEmpreendimento, Col_IdModulo, Col_DataReferencia, Col_VPCurva, Col_PesoModulo,
     Col_Unidades, Col_VPModulo, Col_VPObra, Col_Obra, Col_SimulacaoId}
REQUIRED_COLS_PP ==
    {Col_SimulacaoId, Col_IdEmpreendimento, Col_NET, Col_Nome, Col_M, Col_Custo}

CanonicalCols(pipeline) ==
    CASE pipeline = "marco_cronograma" -> TARGET_COLS_cronograma
      [] pipeline = "marco_modulo" -> COLUNAS_modulo
      [] pipeline = "marco_parede" -> TARGET_COLS_parede
      [] pipeline = "curvas_prod" -> CURVE_REQUIRED_COLS
      [] pipeline = "pp" -> REQUIRED_COLS_PP

(***************************************************************************)
(* Header specification: a raw header is drawn and one pipeline's          *)
(* normalizer renames it                                                    *)
(***************************************************************************)
\* every run of spaces doubled
RECURSIVE DoubleSpaces(_)
DoubleSpaces(s) ==
    IF s = <<>> THEN <<>>
    ELSE (IF Head(s) = " " THEN <<" ", " ">> ELSE <<Head(s)>>) \o DoubleSpaces(Tail(s))

\* the headers that differ from the canonical name c only by letter case,
\* diacritics, surrounding padding or repeated internal whitespace
Variants(c) ==
    LET spaced == {c, DoubleSpaces(c)}
        folded == spaced \cup {AsciiFold(s) : s \in spaced}
        cased == folded \cup {Lower(s) : s \in folded} \cup {Upper(s) : s \in folded}
    IN cased \cup {<<" ">> \o s \o <<" ">> : s \in cased}

AllCols ==
    TARGET_COLS_cronograma \cup COLUNAS_modulo \cup TARGET_COLS_parede
        \cup CURVE_REQUIRED_COLS \cup REQUIRED_COLS_PP

RawHeaders ==
    UNION {Variants(c) : c \in AllCols}
        \cup {Lower(Key_NOME_OBRA), Key_ID_SIMULACAO, Key_DURACAO_DIAS, Key_MODULO,
              <<"E", "x", "t", "r", "a">>}

NotRenamed == [by |-> "none", name |-> <<>>]

InitHeader ==
    /\ hdr \in RawHeaders
    /\ canon = NotRenamed
    /\ IdleParser /\ IdleClosure /\ IdleStack /\ IdleDuration /\ IdlePipelines

NormalizeCronograma ==
    /\ canon = NotRenamed
    /\ canon' = [by |-> "marco_cronograma", name |-> _normalize_columns_cronograma(hdr)]
    /\ UNCHANGED <<hdr, parserVars, closureVars, pipelineVars, stackVars, durationVars>>

NormalizeModulo ==
    /\ canon = NotRenamed
    /\ canon' = [by |-> "marco_modulo", name |-> _normalize_columns_modulo(hdr)]
    /\ UNCHANGED <<hdr, parserVars, closureVars, pipelineVars, stackVars, durationVars>>

NormalizeParede ==
    /\ canon = NotRenamed
    /\ canon' = [by |-> "marco_parede", name |-> _normalize_columns_parede(hdr)]
    /\ UNCHANGED <<hdr, parserVars, closureVars, pipelineVars, stackVars, durationVars>>

PadronizarCurvas ==
    /\ canon = NotRenamed
    /\ canon' = [by |-> "curvas_prod", name |-> _padronizar_colunas(hdr)]
    /\ UNCHANGED <<hdr, parserVars, closureVars, pipelineVars, stackVars, durationVars>>

SelecionarPP ==
    /\ canon = NotRenamed
    /\ canon' = [by |-> "pp", name |-> colunas_pp(hdr)]
    /\ UNCHANGED <<hdr, parserVars, closureVars, pipelineVars, stackVars, durationVars>>

NextHeader ==
    NormalizeCronograma \/ NormalizeModulo \/ NormalizeParede \/ PadronizarCurvas
        \/ SelecionarPP

SpecHeader == InitHeader /\ [][NextHeader]_vars

(***************************************************************************)
(* Claims about the header normalizers                                     *)
(***************************************************************************)
\* C10: in every report pipeline a raw header that differs from one of the
\* report's canonical column names only by letter case, diacritics,
\* surrounding padding or repeated internal whitespace is renamed to that
\* canonical name.
C10_HeaderFolded ==
    canon # NotRenamed =>
        \A c \in CanonicalCols(canon.by) : hdr \in Variants(c) => canon.name = c

(***************************************************************************)
(* Percentage closure: curvas_prod._ajustar_vp_obra_com_3_decimais.        *)
(* Inside the closure a value is an integer number of thousandths.  A      *)
(* float that lies exactly halfway between two thousandths is rounded by   *)
(* round(v, 3) up or down depending on its binary representation: the      *)
(* positions that round up are the parameter ups of the rounding steps.    *)
(***************************************************************************)
RECURSIVE Sum(_)
Sum(s) == IF s = <<>> THEN 0 ELSE Head(s) + Sum(Tail(s))

Abs(x) == IF x < 0 THEN 0 - x ELSE x

\* a / b (b > 0) rounded to the nearest integer, a tie going up iff up
RoundDiv(a, b, up) ==
    LET q == a \div b
        r == a % b
    IN IF 2 * r < b THEN q
       ELSE IF 2 * r > b THEN q + 1
       ELSE IF up THEN q + 1 ELSE q

IsHalf(a, b) == 2 * (a % b) = b

\* float(v) if pd.notna(v) else 0.0, as a fraction a / b of thousandths
Thousandths(v) ==
    IF v.kind # "float" THEN [a |-> 0, b |-> 1]
    ELSE IF v.scale <= 3 THEN [a |-> v.num * Pow10(3 - v.scale), b |-> 1]
    ELSE [a |-> v.num, b |-> Pow10(v.scale - 3)]

\* line 122-125: missing values become 0.0, every value is rounded to 3 decimals
Arredondar(vals, ups) ==
    [i \in 1..Len(vals) |->
        RoundDiv(Thousandths(vals[i]).a, Thousandths(vals[i]).b, i \in ups)]

TiesArredondar(vals) ==
    {i \in 1..Len(vals) : IsHalf(Thousandths(vals[i]).a, Thousandths(vals[i]).b)}

\* line 126-131: rescale by 1.000 / sum, or by 1.000 / len when the sum is
\* not positive, and round again
Corrigir(vals, ups) ==
    LET soma_atual == Sum(vals) IN
    IF soma_atual = 1000 THEN vals
    ELSE IF soma_atual > 0
         THEN [i \in 1..Len(vals) |-> RoundDiv(vals[i] * 1000, soma_atual, i \in ups)]
         ELSE [i \in 1..Len(vals) |-> RoundDiv(vals[i], Len(vals), i \in ups)]

TiesCorrigir(vals) ==
    LET soma_atual == Sum(vals) IN
    IF soma_atual = 1000 THEN {}
    ELSE IF soma_atual > 0
         THEN {i \in 1..Len(vals) : IsHalf(vals[i] * 1000, soma_atual)}
         ELSE {i \in 1..Len(vals) : IsHalf(vals[i], Len(vals))}

\* max(range(len(vals)), key=lambda i: vals[i]): the first position of the
\* largest value
IdxMax(vals) ==
    CHOOSE i \in 1..Len(vals) :
        /\ \A j \in 1..Len(vals) : vals[j] <= vals[i]
        /\ \A j \in 1..(i - 1) : vals[j] < vals[i]

\* variant of AjusteFino: the residual goes to the last of the largest values
AjusteFino_ultimo_maior(vals) ==
    LET diff == 1000 - Sum(vals)
        ultimo == CHOOSE i \in 1..Len(vals) :
                      /\ \A j \in 1..Len(vals) : vals[j] <= vals[i]
                      /\ \A j \in (i + 1)..Len(vals) : vals[j] < vals[i]
    IN IF diff # 0 /\ Len(vals) > 0
       THEN [vals EXCEPT ![ultimo] = vals[ultimo] + diff]
       ELSE vals

\* variant of AjusteFino: half of the residual, rounded down, is pushed
AjusteFino_meio_residuo(vals) ==
    LET diff == 1000 - Sum(vals) IN
    IF diff # 0 /\ Len(vals) > 0
    THEN [vals EXCEPT ![IdxMax(vals)] = vals[IdxMax(vals)] + (diff \div 2)]
    ELSE vals

\* line 133-139: the residual goes to the largest value
AjusteFino(vals) ==
    LET diff == 1000 - Sum(vals) IN
    IF diff # 0 /\ Len(vals) > 0
    THEN [vals EXCEPT ![IdxMax(vals)] = vals[IdxMax(vals)] + diff]
    ELSE vals

\* line 141-144: final guard on the first element
GarantiaFinal(vals) ==
    LET soma_final == Sum(vals) IN
    IF Abs(soma_final - 1000) > 1 /\ Len(vals) > 0
    THEN [vals EXCEPT ![1] = vals[1] + (1000 - soma_final)]
    ELSE vals

\* mutant of ajustar_grupo: only the proportional rescale is kept
ajustar_grupo_rescale_only(vals, ups1, ups2) == Corrigir(Arredondar(vals, ups1), ups2)

\* variant of ajustar_grupo: half of the residual is pushed and the final
\* guard is left out
ajustar_grupo_meio_residuo(vals, ups1, ups2) ==
    AjusteFino_meio_residuo(Corrigir(Arredondar(vals, ups1), ups2))

\* line 121-144: the body of the loop over the groups, for one group
ajustar_grupo(vals, ups1, ups2) ==
    GarantiaFinal(AjusteFino(Corrigir(Arredondar(vals, ups1), ups2)))

(***************************************************************************)
(* Closure specification: the values of one group are drawn and closed     *)
(***************************************************************************)
MaxGroup == 3      \* largest enumerated group

VPValues ==
    {NA, Dec(0, 0), Dec(4, 4), Dec(5, 4), Dec(1, 3), Dec(2, 3), Dec(2, 1), Dec(333, 3),
     Dec(5, 1), Dec(7, 1), Dec(15, 1), Dec(0 - 1, 1)}

LongGroup == 95    \* members of the one long enumerated group

\* the groups of at most MaxGroup values, and a long group of equal values
Groups ==
    (SeqsUpTo(VPValues, MaxGroup) \ {<<>>}) \cup {[i \in 1..LongGroup |-> Dec(1, 2)]}

NotClosed == <<>>

InitClose ==
    /\ grupo \in Groups
    /\ fechado = NotClosed
    /\ IdleParser /\ IdleHeader /\ IdleStack /\ IdleDuration /\ IdlePipelines

AjustarGrupo ==
    /\ fechado = NotClosed
    /\ \E ups1 \in SUBSET TiesArredondar(grupo) :
         \E ups2 \in SUBSET TiesCorrigir(Arredondar(grupo, ups1)) :
            fechado' = ajustar_grupo(grupo, ups1, ups2)
    /\ UNCHANGED <<grupo, parserVars, headerVars, stackVars, pipelineVars, durationVars>>

NextClose == AjustarGrupo

SpecClose == InitClose /\ [][NextClose]_vars

(***************************************************************************)
(* Claims about the closure of one group                                   *)
(***************************************************************************)
Closed == fechado # NotClosed

NonNegative(v) == v.kind = "float" => v.num >= 0
IsZeroOrMissing(v) == v.kind = "float" => v.num = 0

\* C1: a group of 1..N non-negative values whose sum is not zero is closed
\* to values that sum to 1.000 within 0.001.
C1_NonZeroGroupSumsToOne ==
    (/\ Closed
     /\ \A i \in 1..Len(grupo) : NonNegative(grupo[i])
     /\ \E i \in 1..Len(grupo) : ~IsZeroOrMissing(grupo[i]))
        => Abs(Sum(fechado) - 1000) <= 1

\* a group that had to be rescaled and whose rescaled values did not add up
C1_Witness ==
    /\ grupo = <<Dec(333, 3), Dec(333, 3), Dec(2, 1)>>
    /\ Closed
    /\ Sum(Corrigir(Arredondar(grupo, {}), {})) # 1000
    /\ Sum(fechado) = 1000

\* the rounding residual of an equal split among n members
SplitResidual(n) == Abs(1000 - n * RoundDiv(1000, n, FALSE))

\* C2: a group of n >= 1 values that are all zero or missing is closed to an
\* equal split: the members differ by no more than the rounding residual of
\* 1.000 / n, and they sum to 1.000 within 0.001.
C2_ZeroGroupEqualSplit ==
    (Closed /\ \A i \in 1..Len(grupo) : IsZeroOrMissing(grupo[i]))
        => /\ Abs(Sum(fechado) - 1000) <= 1
           /\ \A i, j \in 1..Len(fechado) :
                  Abs(fechado[i] - fechado[j]) <= SplitResidual(Len(fechado))

(***************************************************************************)
(* Tables of the curve report.  A row keeps the columns the grouping, the  *)
(* closure and the ordering read; identifiers are numbers standing for     *)
(* their one-digit texts, so that text order is number order.              *)
(***************************************************************************)
Field(row, c) ==
    CASE c = Col_IdEmpreendimento -> row.IdEmpreendimento
      [] c = Col_Obra -> row.Obra
      [] c = Col_SimulacaoId -> row.SimulacaoId
      [] c = Col_IdModulo -> row.IdModulo
      [] c = Col_DataReferencia -> row.DataReferencia

\* variant of _deduzir_chaves_curva that prefers the least specific candidate
_deduzir_chaves_curva_least_specific(columns) ==
    LET candidatos == << <<Col_IdEmpreendimento, Col_Obra, Col_SimulacaoId>>,
                         <<Col_IdEmpreendimento, Col_SimulacaoId>>,
                         <<Col_IdEmpreendimento, Col_Obra>>,
                         <<Col_IdEmpreendimento>> >>
        full == {n \in 1..Len(candidatos) :
                    \A k \in 1..Len(candidatos[n]) : candidatos[n][k] \in columns}
        fallback == Filter(<<Col_IdEmpreendimento, Col_Obra, Col_SimulacaoId>>, columns)
    IN IF full # {} THEN candidatos[CHOOSE n \in full : \A m \in full : n >= m]
       ELSE IF fallback # <<>> THEN fallback
       ELSE <<Col_IdEmpreendimento>>

\* curvas_prod._deduzir_chaves_curva, from the columns of the table
_deduzir_chaves_curva(columns) ==
    LET candidatos == << <<Col_IdEmpreendimento, Col_Obra, Col_SimulacaoId>>,
                         <<Col_IdEmpreendimento, Col_SimulacaoId>>,
                         <<Col_IdEmpreendimento, Col_Obra>>,
                         <<Col_IdEmpreendimento>> >>
        full == {n \in 1..Len(candidatos) :
                    \A k \in 1..Len(candidatos[n]) : candidatos[n][k] \in columns}
        fallback == Filter(<<Col_IdEmpreendimento, Col_Obra, Col_SimulacaoId>>, columns)
    IN IF full # {} THEN candidatos[CHOOSE n \in full : \A m \in full : n <= m]
       ELSE IF fallback # <<>> THEN fallback
       ELSE <<Col_IdEmpreendimento>>

GroupKey(row, keys) == [k \in 1..Len(keys) |-> Field(row, keys[k])]

\* the positions of the rows of df that are in the group of row i, in order
RECURSIVE Positions(_, _, _)
Positions(df, keep, from) ==
    IF from > Len(df) THEN <<>>
    ELSE (IF from \in keep THEN <<from>> ELSE <<>>) \o Positions(df, keep, from + 1)

GroupOf(df, keys, i) ==
    Positions(df, {j \in 1..Len(df) : GroupKey(df[j], keys) = GroupKey(df[i], keys)}, 1)

PosIn(idxs, i) == CHOOSE n \in 1..Len(idxs) : idxs[n] = i

\* the columns of a treated table
CurveColumns == CURVE_REQUIRED_COLS

\* curvas_prod._ajustar_vp_obra_com_3_decimais on a table whose VPObra holds
\* floats or NA; ups1 and ups2 are the rows that round up on a tie
_ajustar_vp_obra_com_3_decimais(df, ups1, ups2) ==
    LET keys == _deduzir_chaves_curva(CurveColumns)
        closed(i) ==
            LET idxs == GroupOf(df, keys, i)
                vals == [n \in 1..Len(idxs) |-> df[idxs[n]].VPObra]
                g1 == {n \in 1..Len(idxs) : idxs[n] \in ups1}
                g2 == {n \in 1..Len(idxs) : idxs[n] \in ups2}
            IN ajustar_grupo(vals, g1, g2)[PosIn(idxs, i)]
    IN [i \in 1..Len(df) |-> [df[i] EXCEPT !.VPObra = closed(i)]]

\* the rows whose value is a tie of the first rounding, and of the rescale
TieRows1(df) == {i \in 1..Len(df) : IsHalf(Thousandths(df[i].VPObra).a,
                                           Thousandths(df[i].VPObra).b)}
TieRows2(df, ups1) ==
    LET keys == _deduzir_chaves_curva(CurveColumns) IN
    {i \in 1..Len(df) :
        LET idxs == GroupOf(df, keys, i)
            vals == [n \in 1..Len(idxs) |-> df[idxs[n]].VPObra]
            g1 == {n \in 1..Len(idxs) : idxs[n] \in ups1}
        IN PosIn(idxs, i) \in TiesCorrigir(Arredondar(vals, g1))}

\* a value of thousandths as the float the table holds
AsFloat(m) == Dec(m, 3)
Floats(df) == [i \in 1..Len(df) |-> [df[i] EXCEPT !.VPObra = AsFloat(df[i].VPObra)]]

\* the warnings
AvisoVazia(fonte) == [fonte |-> fonte, aviso |-> "vazia", colunas |-> {}]
AvisoAusentes(fonte, faltantes) ==
    [fonte |-> fonte, aviso |-> "colunas ausentes", colunas |-> faltantes]

ParseRow(row) == [row EXCEPT !.VPObra = _parse_number_br_pct(row.VPObra)]

\* mutant of _tratar_curva: the source is not closed, its VPObra is only
\* rounded to 3 decimals
_tratar_curva_sem_ajuste(src, ups1, ups2) ==
    LET out == [i \in 1..Len(src.rows) |-> ParseRow(src.rows[i])]
    IN [df |-> [i \in 1..Len(out) |->
                   [out[i] EXCEPT !.VPObra =
                       Arredondar(<<out[i].VPObra>>, IF i \in ups1 THEN {1} ELSE {})[1]]],
        avisos |-> <<>>]

\* variant of _tratar_curva: the rows whose VPObra cell is not a number are
\* dropped before the closure
_tratar_curva_descarta_ausentes(src, ups1, ups2) ==
    LET columns == {_padronizar_colunas(c) : c \in src.columns}
        faltantes == {c \in CURVE_REQUIRED_COLS : c \notin columns}
        out == [i \in 1..Len(src.rows) |-> ParseRow(src.rows[i])]
        kept == Filter(out, {r \in {out[i] : i \in 1..Len(out)} : r.VPObra # NA})
    IN IF faltantes # {}
       THEN [df |-> <<>>, avisos |-> <<AvisoAusentes(src.fonte, faltantes)>>]
       ELSE [df |-> _ajustar_vp_obra_com_3_decimais(kept, {}, {}), avisos |-> <<>>]

\* curvas_prod._tratar_curva: (df, avisos)
_tratar_curva(src, ups1, ups2) ==
    LET columns == {_padronizar_colunas(c) : c \in src.columns}
        faltantes == {c \in CURVE_REQUIRED_COLS : c \notin columns}
        out == [i \in 1..Len(src.rows) |-> ParseRow(src.rows[i])]
    IN IF faltantes # {}
       THEN [df |-> <<>>, avisos |-> <<AvisoAusentes(src.fonte, faltantes)>>]
       ELSE [df |-> _ajustar_vp_obra_com_3_decimais(out, ups1, ups2), avisos |-> <<>>]

\* the rows handed to the closure inside _tratar_curva
Tratados(src) == [i \in 1..Len(src.rows) |-> ParseRow(src.rows[i])]

RECURSIVE Concat(_)
Concat(tables) == IF tables = <<>> THEN <<>> ELSE Head(tables) \o Concat(Tail(tables))

ord_cols ==
    <<Col_SimulacaoId, Col_IdEmpreendimento, Col_Obra, Col_IdModulo, Col_DataReferencia>>

\* row a sorts strictly before row b
RECURSIVE LessFrom(_, _, _)
LessFrom(a, b, k) ==
    IF k > Len(ord_cols) THEN FALSE
    ELSE IF Field(a, ord_cols[k]) # Field(b, ord_cols[k])
         THEN Field(a, ord_cols[k]) < Field(b, ord_cols[k])
         ELSE LessFrom(a, b, k + 1)

Less(a, b) == LessFrom(a, b, 1)

\* variant of InsertStable: the row is inserted before the rows it ties with
RECURSIVE InsertStable_antes_dos_iguais(_, _)
InsertStable_antes_dos_iguais(sorted, row) ==
    IF sorted = <<>> THEN <<row>>
    ELSE IF ~Less(sorted[Len(sorted)], row)
         THEN Append(InsertStable_antes_dos_iguais(SubSeq(sorted, 1, Len(sorted) - 1), row),
                     sorted[Len(sorted)])
         ELSE Append(sorted, row)

\* row inserted after every row that does not sort after it
RECURSIVE InsertStable(_, _)
InsertStable(sorted, row) ==
    IF sorted = <<>> THEN <<row>>
    ELSE IF Less(row, sorted[Len(sorted)])
         THEN Append(InsertStable(SubSeq(sorted, 1, Len(sorted) - 1), row),
                     sorted[Len(sorted)])
         ELSE Append(sorted, row)

\* DataFrame.sort_values(by=ord_cols, kind="mergesort"): a stable sort
RECURSIVE SortValues(_)
SortValues(df) ==
    IF df = <<>> THEN <<>>
    ELSE InsertStable(SortValues(SubSeq(df, 1, Len(df) - 1)), df[Len(df)])

\* mutant of empilhar_final: the stacked table is not closed again
empilhar_final_sem_ajuste(tables, ups2) == SortValues(Concat(tables))

\* curvas_prod.empilhar_curvas, line 235-248: concat, closure, decimals, sort
empilhar_final(tables, ups2) ==
    IF tables # <<>>
    THEN SortValues(_ajustar_vp_obra_com_3_decimais(Floats(Concat(tables)), {}, ups2))
    ELSE <<>>

(***************************************************************************)
(* Stacking specification: a batch of sources is drawn and stacked by      *)
(* empilhar_curvas, one source per step of its loop                        *)
(***************************************************************************)
MaxRows == 3       \* most rows of an enumerated batch, all sources together

FonteNames == <<"a.xlsx::Curva", "b.xlsx::Curva">>

VPCells == {Text(<<"0", ",", "3", "3", "3">>), Text(<<"2", "0", "%">>), Blank}

Obras == {1, 2}

RawRow(obra, vp) ==
    [SimulacaoId |-> 1, IdEmpreendimento |-> 1, Obra |-> obra, IdModulo |-> 1,
     DataReferencia |-> 1, VPObra |-> vp]

RawRows == {RawRow(o, vp) : o \in Obras, vp \in VPCells}

\* headers as the sheet has them: padded, and one sheet without VPObra
PaddedCols == {<<" ">> \o c \o <<" ">> : c \in CURVE_REQUIRED_COLS}

\* the sheets of at most n rows
RawTables(n) ==
    [columns : {PaddedCols}, rows : SeqsUpTo(RawRows, n)]
        \cup (IF n = 0 THEN {}
              ELSE {[columns |-> CURVE_REQUIRED_COLS \ {Col_VPObra},
                     rows |-> <<RawRow(1, Blank)>>]})

\* the batches of one or two sheets
RawBatches ==
    {<<t>> : t \in RawTables(MaxRows)}
        \cup UNION {{<<t1, t2>> : t2 \in RawTables(MaxRows - Len(t1.rows))} :
                        t1 \in RawTables(MaxRows)}

\* the two sources of the spec's end-to-end example, both of one curve
ExampleBatch ==
    << [columns |-> CURVE_REQUIRED_COLS,
        rows |-> << RawRow(1, Text(<<"0", ".", "3", "3", "3">>)),
                    RawRow(1, Text(<<"0", ".", "3", "3", "3">>)),
                    RawRow(1, Text(<<"0", ".", "3", "3", "3">>)) >>],
       [columns |-> CURVE_REQUIRED_COLS,
        rows |-> << RawRow(1, Text(<<"0", ".", "5">>)),
                    RawRow(1, Text(<<"0", ".", "2">>)) >>] >>

\* sheets of one or two rows with a VPObra cell that is a text and no number
SemNumero == Text(<<"n", "/", "d">>)

UnparseableBatches ==
    {<<[columns |-> PaddedCols, rows |-> r]>> :
        r \in SeqsUpTo({RawRow(o, vp) : o \in Obras,
                                        vp \in {SemNumero, Text(<<"2", "0", "%">>)}}, 2) \ {<<>>}}

Named(tables) ==
    [i \in 1..Len(tables) |->
        [fonte |-> FonteNames[i], columns |-> tables[i].columns, rows |-> tables[i].rows]]

Batches == {Named(b) : b \in RawBatches \cup {ExampleBatch} \cup UnparseableBatches}

InitStack ==
    /\ fontes \in Batches
    /\ pc = [at |-> "loop", i |-> 1]
    /\ emp = <<>>
    /\ ok_list = <<>>
    /\ warn_list = <<>>
    /\ stacked = <<>>
    /\ IdleParser /\ IdleHeader /\ IdleClosure /\ IdleDuration /\ IdlePipelines

WithFonte(df, fonte) ==
    [i \in 1..Len(df) |->
        [Fonte |-> fonte, SimulacaoId |-> df[i].SimulacaoId,
         IdEmpreendimento |-> df[i].IdEmpreendimento, Obra |-> df[i].Obra,
         IdModulo |-> df[i].IdModulo, DataReferencia |-> df[i].DataReferencia,
         VPObra |-> df[i].VPObra]]

\* line 221-224: an empty source is skipped with a warning
StackEmpty ==
    /\ pc.at = "loop" /\ pc.i <= Len(fontes)
    /\ fontes[pc.i].rows = <<>>
    /\ warn_list' = Append(warn_list, AvisoVazia(fontes[pc.i].fonte))
    /\ pc' = [pc EXCEPT !.i = pc.i + 1]
    /\ UNCHANGED <<fontes, emp, ok_list, stacked, parserVars, headerVars, closureVars, pipelineVars,
                   durationVars>>

\* line 226-233: the source is treated and, unless rejected, appended
StackSource ==
    /\ pc.at = "loop" /\ pc.i <= Len(fontes)
    /\ fontes[pc.i].rows # <<>>
    /\ \E out \in {Tratados(fontes[pc.i])} :
       \E ups1 \in SUBSET TieRows1(out) :
         \E ups2 \in SUBSET TieRows2(out, ups1) :
            LET r == _tratar_curva(fontes[pc.i], ups1, ups2) IN
            /\ warn_list' = warn_list \o r.avisos
            /\ IF r.df # <<>>
               THEN /\ emp' = Append(emp, WithFonte(r.df, fontes[pc.i].fonte))
                    /\ ok_list' = Append(ok_list, fontes[pc.i].fonte)
               ELSE UNCHANGED <<emp, ok_list>>
    /\ pc' = [pc EXCEPT !.i = pc.i + 1]
    /\ UNCHANGED <<fontes, stacked, parserVars, headerVars, closureVars, pipelineVars, durationVars>>

\* line 235-250: the accepted tables are concatenated, closed and sorted
StackFinish ==
    /\ pc.at = "loop" /\ pc.i > Len(fontes)
    /\ \E ups2 \in SUBSET TieRows2(Floats(Concat(emp)), {}) :
            stacked' = empilhar_final(emp, ups2)
    /\ pc' = [at |-> "done", i |-> pc.i, columns |-> {Col_Fonte} \cup CURVE_REQUIRED_COLS]
    /\ UNCHANGED <<fontes, emp, ok_list, warn_list, parserVars, headerVars, closureVars, pipelineVars,
                   durationVars>>

NextStack == StackEmpty \/ StackSource \/ StackFinish

SpecStack == InitStack /\ [][NextStack]_vars

\* the main pipeline of the curve report
Spec == SpecStack

(***************************************************************************)
(* Claims about the stacked curve table                                    *)
(***************************************************************************)
Done == pc.at = "done"

CurveKey(row) == <<row.IdEmpreendimento, row.Obra, row.SimulacaoId>>

RECURSIVE SumVP(_, _)
SumVP(df, rows) ==
    IF rows = {} THEN 0
    ELSE LET i == CHOOSE r \in rows : TRUE IN df[i].VPObra + SumVP(df, rows \ {i})

RowsOfKey(df, key) == {i \in 1..Len(df) : CurveKey(df[i]) = key}
RowsOfKeyAndFonte(df, key, fonte) == {i \in RowsOfKey(df, key) : df[i].Fonte = fonte}
FontesOfKey(df, key) == {df[i].Fonte : i \in RowsOfKey(df, key)}
KeysOf(df) == {CurveKey(df[i]) : i \in 1..Len(df)}

\* C3: in the table returned by empilhar_curvas every final group (one value
\* of (IdEmpreendimento, Obra, SimulacaoId) over the concatenated table) has
\* VPObra summing to 1.000 within 0.001, whatever sources its rows come from.
C3_FinalGroupsClosed ==
    Done => \A key \in KeysOf(stacked) :
                Abs(SumVP(stacked, RowsOfKey(stacked, key)) - 1000) <= 1

\* a final group with rows of two sources
C3_Witness ==
    /\ Done
    /\ \E key \in KeysOf(stacked) :
          /\ Cardinality(FontesOfKey(stacked, key)) = 2
          /\ SumVP(stacked, RowsOfKey(stacked, key)) = 1000

\* C4 as stated: when two sources carry rows of the same GroupKey, then after
\* empilhar_curvas the rows of each source sum to 1.000 within 0.001 on
\* their own.
C4_EachSourceClosedAfterStacking ==
    Done => \A key \in KeysOf(stacked) :
                Cardinality(FontesOfKey(stacked, key)) = 2 =>
                    \A f \in FontesOfKey(stacked, key) :
                        Abs(SumVP(stacked, RowsOfKeyAndFonte(stacked, key, f)) - 1000) <= 1

\* C4 amended: when two sources carry rows of the same GroupKey, the rows of
\* each source sum to 1.000 within 0.001 in the table its own _tratar_curva
\* pass returns, and after empilhar_curvas it is the rows of the two sources
\* together, the final group, that sum to 1.000 within 0.001.
C4_SourcesClosedThenGroupClosed ==
    /\ \A n \in 1..Len(emp) : \A key \in KeysOf(emp[n]) :
           Abs(SumVP(emp[n], RowsOfKey(emp[n], key)) - 1000) <= 1
    /\ Done => \A key \in KeysOf(stacked) :
                  Cardinality(FontesOfKey(stacked, key)) = 2 =>
                      Abs(SumVP(stacked, RowsOfKey(stacked, key)) - 1000) <= 1

\* the spec's example: [0.333, 0.333, 0.333] and [0.5, 0.2] of one curve
C4_Witness ==
    /\ Done
    /\ fontes = Named(ExampleBatch)
    /\ SumVP(stacked, RowsOfKeyAndFonte(stacked, <<1, 1, 1>>, FonteNames[1])) = 501
    /\ SumVP(stacked, RowsOfKeyAndFonte(stacked, <<1, 1, 1>>, FonteNames[2])) = 499

(***************************************************************************)
(* Work duration: _calculate_work_duration of marco_cronograma.py and      *)
(* marco_modulo.py.  A table is a sequence of rows, its index is 1..Len.   *)
(***************************************************************************)
NaT == [nat |-> TRUE, year |-> 0, month |-> 0, day |-> 0]
Date(y, m, d) == [nat |-> FALSE, year |-> y, month |-> m, day |-> d]

Before(a, b) ==
    \/ a.year < b.year
    \/ a.year = b.year /\ a.month < b.month
    \/ a.year = b.year /\ a.month = b.month /\ a.day < b.day

\* Series.min() / Series.max() of dates: NaT is skipped, NaT when none is left
MinDate(ds) ==
    LET valid == {d \in ds : ~d.nat}
    IN IF valid = {} THEN NaT ELSE CHOOSE d \in valid : \A e \in valid : ~Before(e, d)
MaxDate(ds) ==
    LET valid == {d \in ds : ~d.nat}
    IN IF valid = {} THEN NaT ELSE CHOOSE d \in valid : \A e \in valid : ~Before(d, e)

\* Series.str.contains(pat, case=False, na=False) for a pattern of plain letters
Contains(s, pat) ==
    \E i \in 1..(Len(s) - Len(pat) + 1) :
        Lower(SubSeq(s, i, i + Len(pat) - 1)) = Lower(pat)

Pat_Fundacao == <<"F", "u", "n", "d", "a", "c,", "a~", "o">>
Pat_FimFisico == <<"F", "i", "m", " ", "F", "i'", "s", "i", "c", "o">>

None == [kind |-> "None", n |-> 0]
Months(n) == [kind |-> "int", n |-> n]

\* the body of the loop over df.groupby("Obra") once the masks are applied
DuracaoDe(df, idx) ==
    LET fundacao == MinDate({df[i].Inicio : i \in {j \in idx : Contains(df[j].Nome, Pat_Fundacao)}})
        fim_fisico == MaxDate({df[i].Termino : i \in {j \in idx : Contains(df[j].Nome, Pat_FimFisico)}})
        diff == (fim_fisico.year - fundacao.year) * 12 + (fim_fisico.month - fundacao.month)
        diff1 == IF fim_fisico.day < fundacao.day THEN diff - 1 ELSE diff
    IN IF ~fundacao.nat /\ ~fim_fisico.nat
       THEN Months(IF diff1 > 0 THEN diff1 ELSE 0)
       ELSE None

\* inicio[mask]: a boolean Series used as indexer must cover the index of the
\* Series it selects from; pandas raises IndexingError when it does not
Alignable(df, idx) == idx = 1..Len(df)

\* marco_cronograma._calculate_work_duration for a table that has the
\* columns Obra, Nome, Inicio and Termino: the column it adds, or the
\* exception that leaves it
_calculate_work_duration(df) ==
    LET groups == {{j \in 1..Len(df) : df[j].Obra = df[i].Obra} : i \in 1..Len(df)}
    IN IF df = <<>> THEN [status |-> "ok", col |-> <<>>]
       ELSE IF \E idx \in groups : ~Alignable(df, idx)
            THEN [status |-> "IndexingError", col |-> <<>>]
            ELSE [status |-> "ok",
                  col |-> [i \in 1..Len(df) |->
                             DuracaoDe(df, {j \in 1..Len(df) : df[j].Obra = df[i].Obra})]]

\* marco_modulo._calculate_work_duration: the same statements
_calculate_work_duration_modulo(df) == _calculate_work_duration(df)

(***************************************************************************)
(* Duration specification: a schedule table is drawn and the duration      *)
(* column is derived                                                        *)
(***************************************************************************)
MaxDurRows == 2    \* most rows of an enumerated schedule table

Nomes == {<<"f", "u", "n", "d", "a", "c,", "a~", "o">>,
          <<"F", "I", "M", " ", "F", "I'", "S", "I", "C", "O">>,
          <<"E", "s", "t", "r", "u", "t", "u", "r", "a">>}

Inicios == {Date(2024, 1, 15), Date(2024, 1, 10), NaT}
Terminos == {Date(2024, 7, 10), Date(2023, 11, 20), NaT}

SchedRows ==
    [Obra : {"A", "B"}, Nome : Nomes, Inicio : Inicios, Termino : Terminos]

Marco(obra, nome, inicio, termino) ==
    [Obra |-> obra, Nome |-> nome, Inicio |-> inicio, Termino |-> termino]

\* the spec's examples, and one table with two work units
ExampleSchedules ==
    { << Marco("A", Pat_Fundacao, Date(2024, 1, 15), NaT),
         Marco("A", Pat_Fundacao, Date(2024, 2, 20), NaT),
         Marco("A", Pat_FimFisico, NaT, Date(2024, 7, 10)) >>,
      << Marco("A", Pat_Fundacao, Date(2024, 1, 10), NaT),
         Marco("A", Pat_FimFisico, NaT, Date(2024, 6, 30)),
         Marco("A", Pat_FimFisico, NaT, Date(2024, 7, 15)) >>,
      << Marco("A", Pat_Fundacao, Date(2024, 1, 15), NaT),
         Marco("A", Pat_FimFisico, NaT, Date(2024, 7, 10)),
         Marco("B", Pat_Fundacao, Date(2024, 1, 10), NaT),
         Marco("B", Pat_FimFisico, NaT, Date(2024, 7, 15)) >> }

Schedules == SeqsUpTo(SchedRows, MaxDurRows) \cup ExampleSchedules

NotCalculated == [status |-> "pending", by |-> "none", col |-> <<>>]

InitDuration ==
    /\ obras \in Schedules
    /\ duracoes = NotCalculated
    /\ IdleParser /\ IdleHeader /\ IdleClosure /\ IdleStack /\ IdlePipelines

CalcCronograma ==
    /\ duracoes = NotCalculated
    /\ duracoes' = [status |-> _calculate_work_duration(obras).status,
                    by |-> "marco_cronograma",
                    col |-> _calculate_work_duration(obras).col]
    /\ UNCHANGED <<obras, parserVars, headerVars, closureVars, pipelineVars, stackVars>>

CalcModulo ==
    /\ duracoes = NotCalculated
    /\ duracoes' = [status |-> _calculate_work_duration_modulo(obras).status,
                    by |-> "marco_modulo",
                    col |-> _calculate_work_duration_modulo(obras).col]
    /\ UNCHANGED <<obras, parserVars, headerVars, closureVars, pipelineVars, stackVars>>

NextDuration == CalcCronograma \/ CalcModulo

SpecDuration == InitDuration /\ [][NextDuration]_vars

(***************************************************************************)
(* Claims about the work duration                                          *)
(***************************************************************************)
Calculated == duracoes.status \notin {"pending", "idle"}

RowsOfObra(o) == {i \in 1..Len(obras) : obras[i].Obra = o}
StartDates(o) ==
    {obras[i].Inicio : i \in {j \in RowsOfObra(o) : Contains(obras[j].Nome, Pat_Fundacao)}}
EndDates(o) ==
    {obras[i].Termino : i \in {j \in RowsOfObra(o) : Contains(obras[j].Nome, Pat_FimFisico)}}
HasStart(o) == \E d \in StartDates(o) : ~d.nat
HasEnd(o) == \E d \in EndDates(o) : ~d.nat
Earliest(ds) == CHOOSE d \in ds : ~d.nat /\ \A e \in ds : e.nat \/ ~Before(e, d)
Latest(ds) == CHOOSE d \in ds : ~d.nat /\ \A e \in ds : e.nat \/ ~Before(d, e)

\* (e.year - s.year) * 12 + (e.month - s.month), one less when e.day < s.day
WholeMonths(s, e) ==
    (e.year - s.year) * 12 + (e.month - s.month) - (IF e.day < s.day THEN 1 ELSE 0)

DurationOfRow(i) == IF duracoes.status = "ok" THEN duracoes.col[i] ELSE [kind |-> "absent", n |-> 0]

\* C8: every work unit that has a start milestone date s and an end
\* milestone date e gets the duration (e.year - s.year) * 12 + (e.month -
\* s.month), one less when e.day < s.day (and not below zero), also when the
\* table holds several work units.
C8_DurationInWholeMonths ==
    Calculated =>
        \A i \in 1..Len(obras) :
            LET o == obras[i].Obra IN
            (HasStart(o) /\ HasEnd(o)) =>
                LET m == WholeMonths(Earliest(StartDates(o)), Latest(EndDates(o)))
                IN DurationOfRow(i) = Months(IF m > 0 THEN m ELSE 0)

\* C9: the duration of every work unit is Missing or an integer >= 0: Missing
\* exactly when the unit has no start-milestone row with a valid date or no
\* end-milestone row with a valid date, and 0 when the end milestone falls
\* before the start milestone.
C9_DurationMissingOrNatural ==
    Calculated =>
        \A i \in 1..Len(obras) :
            LET o == obras[i].Obra IN
            /\ DurationOfRow(i) = None \/ (DurationOfRow(i).kind = "int" /\ DurationOfRow(i).n >= 0)
            /\ (DurationOfRow(i) = None) <=> ~(HasStart(o) /\ HasEnd(o))
            /\ (HasStart(o) /\ HasEnd(o)
                    /\ Before(Latest(EndDates(o)), Earliest(StartDates(o))))
                   => DurationOfRow(i) = Months(0)

(***************************************************************************)
(* Group keys of a curve table: curvas_prod._deduzir_chaves_curva applied  *)
(* to two tables that have the same columns, possibly in another order,    *)
(* and other rows.                                                         *)
(***************************************************************************)
MaxCols == 3       \* most columns of a table handed to _deduzir_chaves_curva

Range(s) == {s[i] : i \in 1..Len(s)}

KeyUniverse == {Col_IdEmpreendimento, Col_Obra, Col_SimulacaoId, Col_VPObra, Col_IdModulo}

ColumnLists == {c \in SeqsUpTo(KeyUniverse, MaxCols) : Cardinality(Range(c)) = Len(c)}

KeyRows == {<<>>, <<"r1">>, <<"r2">>}

KeyTables == [columns : ColumnLists, rows : KeyRows]

NoKeys == <<>>

InitKeys ==
    /\ tabelas \in {<<a, b>> : a \in KeyTables, b \in KeyTables}
    /\ Range(tabelas[1].columns) = Range(tabelas[2].columns)
    /\ chaves = NoKeys
    /\ IdleParser /\ IdleHeader /\ IdleClosure /\ IdleStack /\ IdleDuration
    /\ IdleRequired /\ IdleIngest /\ IdleLimit /\ IdleCache

\* keys = _deduzir_chaves_curva(df) for each of the two tables
DeduzirChaves ==
    /\ chaves = NoKeys
    /\ chaves' = [i \in 1..2 |-> _deduzir_chaves_curva(Range(tabelas[i].columns))]
    /\ UNCHANGED <<tabelas, parserVars, headerVars, closureVars, stackVars, durationVars,
                   requiredVars, ingestVars, limitVars, cacheVars>>

NextKeys == DeduzirChaves

SpecKeys == InitKeys /\ [][NextKeys]_vars

(***************************************************************************)
(* Claims about the group keys                                             *)
(***************************************************************************)
KeysDeduced == chaves # NoKeys

Candidates ==
    << <<Col_IdEmpreendimento, Col_Obra, Col_SimulacaoId>>,
       <<Col_IdEmpreendimento, Col_SimulacaoId>>,
       <<Col_IdEmpreendimento, Col_Obra>>,
       <<Col_IdEmpreendimento>> >>

Matches(n, i) == Range(Candidates[n]) \subseteq Range(tabelas[i].columns)

NoneMatches(i) == \A n \in 1..Len(Candidates) : ~Matches(n, i)

\* C12: the key tuple is the first candidate, in the order [IdEmpreendimento,
\* Obra, SimulacaoId], [IdEmpreendimento, SimulacaoId], [IdEmpreendimento,
\* Obra], [IdEmpreendimento], whose columns all exist in the table, and two
\* tables with the same columns and different rows get the same key tuple.
C12_FirstMatchingCandidate ==
    KeysDeduced =>
        /\ \A i \in 1..2 : \A n \in 1..Len(Candidates) :
               (Matches(n, i) /\ \A m \in 1..(n - 1) : ~Matches(m, i))
                   => chaves[i] = Candidates[n]
        /\ chaves[1] = chaves[2]

C12_Witness ==
    /\ KeysDeduced
    /\ tabelas[1].rows # tabelas[2].rows
    /\ tabelas[1].columns # tabelas[2].columns
    /\ ~Matches(1, 1) /\ Matches(2, 1)
    /\ chaves[1] = <<Col_IdEmpreendimento, Col_SimulacaoId>>

\* C13: when no candidate matches, the key tuple is made of the identifier
\* columns IdEmpreendimento, Obra, SimulacaoId present in the table, or of a
\* column of the table when none is; every column of the key tuple exists
\* in the table.
C13_KeyColumnsExist ==
    KeysDeduced =>
        \A i \in 1..2 :
            /\ Range(chaves[i]) \subseteq Range(tabelas[i].columns)
            /\ NoneMatches(i) =>
                 LET present == Range(tabelas[i].columns)
                                   \cap {Col_IdEmpreendimento, Col_Obra, Col_SimulacaoId}
                 IN IF present # {} THEN Range(chaves[i]) = present
                    ELSE chaves[i] # <<>>

(***************************************************************************)
(* Weighted-plan report: pp.selecionar_e_tratar_colunas_pp and             *)
(* pp.stack_schedules_pp.  The sheets are read with dtype=str, so every    *)
(* cell is a text or blank.                                                *)
(***************************************************************************)
\* pd.to_numeric(series, errors="coerce") of one cell whose text has no
\* whitespace: the number the text spells, NaN for any other text
to_numeric(value) ==
    IF value.kind = "blank" THEN NA
    ELSE IF value.kind = "num" THEN value.v
    ELSE TryFloat(value.s)

\* pp.strip_accents_upper
strip_accents_upper(text) == Upper(Strip(CollapseSpaces(AsciiFold(text))))

\* pp.normalize_hyphen_spaces: re.sub(r"\s*-\s*", " - ", text)
RECURSIVE normalize_hyphen_spaces(_)
normalize_hyphen_spaces(text) ==
    LET at == {i \in 1..Len(text) : text[i] = "-"}
        first == CHOOSE i \in at : \A j \in at : i <= j
    IN IF at = {} THEN text
       ELSE RStrip(SubSeq(text, 1, first - 1)) \o <<" ", "-", " ">>
                \o normalize_hyphen_spaces(LStrip(SubSeq(text, first + 1, Len(text))))

WordChars == {UpperChars[i] : i \in 1..26} \cup {LowerChars[i] : i \in 1..26}
                 \cup Digits \cup {"_"}

\* Series.str.contains(r"\bWORD\b", na=False) for a word of letters
ContainsWord(s, word) ==
    \E i \in 1..(Len(s) - Len(word) + 1) :
        /\ SubSeq(s, i, i + Len(word) - 1) = word
        /\ (i = 1 \/ s[i - 1] \notin WordChars)
        /\ (i + Len(word) > Len(s) \/ s[i + Len(word)] \notin WordChars)

Word_MODULO == <<"M", "O", "D", "U", "L", "O">>
Nome_PRE_PROJETO == <<"P", "R", "E", " ", "-", " ", "P", "R", "O", "J", "E", "T", "O">>

\* int(x) of a float: truncation toward zero
IntOf(v) ==
    IF v.num >= 0 THEN v.num \div Pow10(v.scale)
    ELSE 0 - ((0 - v.num) \div Pow10(v.scale))

\* str(v).replace(",", "."): the commas of the text become periods
CommasToDots(s) == [i \in 1..Len(s) |-> IF s[i] = "," THEN "." ELSE s[i]]

\* pp.format_mod_label: "MÓD. " and idx + 1 on two digits; idx is 0 when the
\* cell is no number (a blank cell is NaN, int(NaN) raises)
format_mod_label(v) ==
    LET f == IF v.kind = "blank" THEN ValueError
             ELSE IF v.kind = "num" THEN v.v
             ELSE FloatOf(CommasToDots(v.s))
        idx == IF f.kind = "float" THEN IntOf(f) ELSE 0
        n == idx + 1
    IN <<"M", "O'", "D", ".", " ">>
           \o (IF n < 0 THEN <<"-">> \o NatToDigits(0 - n) ELSE ZeroPad(NatToDigits(n), 2))

AvisoAusentesPP(guia_nome, faltantes) ==
    [fonte |-> guia_nome, aviso |-> "colunas ausentes", colunas |-> faltantes]

\* line 75-79: the rows kept by mask1 | mask2 | mask3
MantidaPP(row) ==
    LET net_num == to_numeric(row.NET)
        nome_norm == normalize_hyphen_spaces(strip_accents_upper(row.Nome))
    IN \/ net_num = Dec(1, 0)
       \/ net_num = Dec(2, 0) /\ ContainsWord(nome_norm, Word_MODULO)
       \/ net_num = Dec(4, 0) /\ nome_norm = Nome_PRE_PROJETO

\* line 80-85: the columns of a kept row after treatment
TratarLinhaPP(row) ==
    [SimulacaoId |-> row.SimulacaoId, IdEmpreendimento |-> row.IdEmpreendimento,
     NET |-> IntOf(to_numeric(row.NET)), Nome |-> Strip(row.Nome),
     M |-> format_mod_label(row.M), Custo |-> parse_number_br(row.Custo)]

\* out.loc[mask1 | mask2 | mask3]: the kept rows, in their order
RECURSIVE MantidasPP(_)
MantidasPP(rows) ==
    IF rows = <<>> THEN <<>>
    ELSE (IF MantidaPP(Head(rows)) THEN <<Head(rows)>> ELSE <<>>) \o MantidasPP(Tail(rows))

\* variant of selecionar_e_tratar_colunas_pp that rejects a sheet without a word
selecionar_e_tratar_colunas_pp_sem_aviso(src) ==
    LET faltantes == {c \in REQUIRED_COLS_PP : c \notin {colunas_pp(h) : h \in src.columns}}
        kept == MantidasPP(src.rows)
    IN IF faltantes # {} THEN [df |-> <<>>, avisos |-> <<>>]
       ELSE [df |-> [i \in 1..Len(kept) |-> TratarLinhaPP(kept[i])], avisos |-> <<>>]

\* pp.selecionar_e_tratar_colunas_pp: (out, avisos)
selecionar_e_tratar_colunas_pp(src) ==
    LET faltantes == {c \in REQUIRED_COLS_PP : c \notin {colunas_pp(h) : h \in src.columns}}
        kept == MantidasPP(src.rows)
    IN IF faltantes # {}
       THEN [df |-> <<>>, avisos |-> <<AvisoAusentesPP(src.fonte, faltantes)>>]
       ELSE [df |-> [i \in 1..Len(kept) |-> TratarLinhaPP(kept[i])], avisos |-> <<>>]

WithFontePP(df, fonte) ==
    [i \in 1..Len(df) |->
        [Fonte |-> fonte, SimulacaoId |-> df[i].SimulacaoId,
         IdEmpreendimento |-> df[i].IdEmpreendimento, NET |-> df[i].NET,
         Nome |-> df[i].Nome, M |-> df[i].M, Custo |-> df[i].Custo]]

(***************************************************************************)
(* Batches of the weighted-plan report and pp.stack_schedules_pp, one      *)
(* source per step of its loop                                             *)
(***************************************************************************)
FonteNamesPP == <<"a.xlsx::Planilha1", "b.xlsx::Planilha1">>

Nome_Obra == <<"O", "b", "r", "a">>
Nome_Modulo1 == <<"M", "o'", "d", "u", "l", "o", " ", "1">>
Nome_PreProjeto == <<"P", "r", "e'", "-", "P", "r", "o", "j", "e", "t", "o">>

PPRow(net, nome, custo) ==
    [SimulacaoId |-> 1, IdEmpreendimento |-> 1, NET |-> net, Nome |-> nome,
     M |-> Text(<<"0">>), Custo |-> custo]

PPRows ==
    {PPRow(Text(<<"1">>), Nome_Obra, Text(<<"1", ",", "5">>)),
     PPRow(Text(<<"2">>), Nome_Modulo1, Text(<<"1", ",", "5">>)),
     PPRow(Text(<<"2">>), Nome_Obra, Text(<<"1", ",", "5">>)),
     PPRow(Text(<<"4">>), Nome_PreProjeto, Text(<<"1", ",", "5">>)),
     PPRow(Text(<<"3">>), Nome_Obra, Blank)}

\* the sheets of at most n rows: with every required header (also with no
\* row under the headers), a sheet with no cell at all, a sheet without Custo
PPTables(n) ==
    [columns : {REQUIRED_COLS_PP}, rows : SeqsUpTo(PPRows, n)]
        \cup {[columns |-> {}, rows |-> <<>>]}
        \cup (IF n = 0 THEN {}
              ELSE {[columns |-> REQUIRED_COLS_PP \ {Col_Custo},
                     rows |-> <<PPRow(Text(<<"1">>), Nome_Obra, Blank)>>]})

PPBatches ==
    {<<t>> : t \in PPTables(MaxRows)}
        \cup UNION {{<<t1, t2>> : t2 \in PPTables(MaxRows - Len(t1.rows))} :
                        t1 \in PPTables(MaxRows)}

NamedPP(tables) ==
    [i \in 1..Len(tables) |->
        [fonte |-> FonteNamesPP[i], columns |-> tables[i].columns, rows |-> tables[i].rows]]

BatchesPP == {NamedPP(b) : b \in PPBatches}

\* pp.stack_schedules_pp line 147-153: one source is treated and, unless it
\* comes back empty, appended
StackSourcePP ==
    /\ pc.at = "loop_pp" /\ pc.i <= Len(fontes)
    /\ LET r == selecionar_e_tratar_colunas_pp(fontes[pc.i]) IN
         /\ warn_list' = warn_list \o r.avisos
         /\ IF r.df # <<>>
            THEN /\ emp' = Append(emp, WithFontePP(r.df, fontes[pc.i].fonte))
                 /\ ok_list' = Append(ok_list, fontes[pc.i].fonte)
            ELSE UNCHANGED <<emp, ok_list>>
    /\ pc' = [pc EXCEPT !.i = pc.i + 1]
    /\ UNCHANGED <<fontes, stacked, parserVars, headerVars, closureVars, durationVars,
                   pipelineVars>>

\* pp.stack_schedules_pp line 159-161: the accepted tables are concatenated
StackFinishPP ==
    /\ pc.at = "loop_pp" /\ pc.i > Len(fontes)
    /\ stacked' = Concat(emp)
    /\ pc' = [at |-> "done_pp", i |-> pc.i, columns |-> {Col_Fonte} \cup REQUIRED_COLS_PP]
    /\ UNCHANGED <<fontes, emp, ok_list, warn_list, parserVars, headerVars, closureVars,
                   durationVars, pipelineVars>>

NextStackPP == StackSourcePP \/ StackFinishPP

\* the stacking step of the two reports that keep an accepted-source list and
\* a warning list
InitStacks ==
    /\ pc \in {[at |-> "loop", i |-> 1], [at |-> "loop_pp", i |-> 1]}
    /\ fontes \in (IF pc.at = "loop" THEN Batches ELSE BatchesPP)
    /\ emp = <<>>
    /\ ok_list = <<>>
    /\ warn_list = <<>>
    /\ stacked = <<>>
    /\ IdleParser /\ IdleHeader /\ IdleClosure /\ IdleDuration /\ IdlePipelines

NextStacks == NextStack \/ NextStackPP

SpecStacks == InitStacks /\ [][NextStacks]_vars

(***************************************************************************)
(* Claims about the lists kept while a batch is stacked                    *)
(***************************************************************************)
Returned == pc.at \in {"done", "done_pp"}

Stacking == pc.at \in {"loop", "loop_pp", "done", "done_pp"}

ReportCols == IF pc.at \in {"loop", "done"} THEN CURVE_REQUIRED_COLS ELSE REQUIRED_COLS_PP

\* the headers of a source as the report compares them with its required set
HeadersOf(src) ==
    IF pc.at \in {"loop", "done"} THEN {Strip(h) : h \in src.columns} ELSE src.columns

MissingCols(src) == ReportCols \ HeadersOf(src)

\* the source fails normalization: it is empty or lacks a required column
FailsNormalization(src) == src.rows = <<>> \/ MissingCols(src) # {}

\* C18: for a non-empty batch whose every source is empty or lacks a required
\* column, empilhar_curvas and stack_schedules_pp return an empty table with
\* the report's fixed columns, no accepted source and at least one warning.
C18_AllSourcesRejected ==
    (Returned /\ fontes # <<>> /\ \A i \in 1..Len(fontes) : FailsNormalization(fontes[i]))
        => /\ stacked = <<>>
           /\ pc.columns = {Col_Fonte} \cup ReportCols
           /\ ok_list = <<>>
           /\ warn_list # <<>>

IsPrefix(s, t) == Len(s) <= Len(t) /\ SubSeq(t, 1, Len(s)) = s

\* the warnings the normalization of the sources handled so far gives rise to
WarningOf(src) ==
    IF MissingCols(src) # {}
    THEN {[fonte |-> src.fonte, aviso |-> "colunas ausentes", colunas |-> MissingCols(src)]}
    ELSE {}

ListsOnlyGrow == IsPrefix(ok_list, ok_list') /\ IsPrefix(warn_list, warn_list')

WarningsKept ==
    Stacking =>
        \A i \in 1..Len(fontes) :
            (i < pc.i /\ (pc.at \in {"loop_pp", "done_pp"} \/ fontes[i].rows # <<>>))
                => WarningOf(fontes[i]) \subseteq {warn_list[k] : k \in 1..Len(warn_list)}

\* C19: while a batch is stacked the accepted-source list and the warning
\* list only grow by appending (each step leaves the previous content as a
\* prefix), and every warning of a source's normalization is in the warning
\* list returned with the output.
C19_ListsAppendOnly == [][ListsOnlyGrow]_vars /\ []WarningsKept

C19_Witness ==
    /\ Returned
    /\ Len(fontes) = 2
    /\ Len(warn_list) = 1 /\ warn_list[1].fonte = fontes[1].fonte
    /\ Len(ok_list) = 1 /\ ok_list[1] = fontes[2].fonte

(***************************************************************************)
(* Required columns: one sheet through the treatment of each report, up to *)
(* the rows it adds to the consolidated table                              *)
(***************************************************************************)
Pat_Parede ==
    <<"A", "L", "V", "E", "N", "A", "R", "I", "A", " ", "/", " ", "P", "A", "R", "E", "D",
      "E", " ", "D", "E", " ", "C", "O", "N", "C", "R", "E", "T", "O">>
Nome_Alvenaria ==
    <<"A", "l", "v", "e", "n", "a", "r", "i", "a", " ", "/", " ", "P", "a", "r", "e", "d",
      "e", " ", "d", "e", " ", "C", "o", "n", "c", "r", "e", "t", "o">>
Nome_TorreM01 == <<"T", "o", "r", "r", "e", " ", "m", "0", "1">>

Mod_Prefix == <<"M", "O'", "D", ".", " ">>

\* nome_upper.str.match(r".*M(0[1-9]|1[0-5])$")
MatchesModulo(u) ==
    /\ Len(u) >= 3
    /\ u[Len(u) - 2] = "M"
    /\ \/ u[Len(u) - 1] = "0" /\ u[Len(u)] \in Digits \ {"0"}
       \/ u[Len(u) - 1] = "1" /\ u[Len(u)] \in {"0", "1", "2", "3", "4", "5"}

\* marco_modulo._create_module_column: the Modulo cell of one row
_create_module_column(columns, nome) ==
    IF Col_Nome \notin columns THEN <<>>
    ELSE IF MatchesModulo(Upper(nome))
         THEN Mod_Prefix \o SubSeq(Upper(nome), Len(nome) - 1, Len(nome))
         ELSE <<>>

\* df.get("Inicio", pd.Series([pd.NaT] * len(df))): the dates the duration
\* is computed from when a date column is absent
ComDatas(rows, columns) ==
    [i \in 1..Len(rows) |->
        [rows[i] EXCEPT !.Inicio = IF Col_Inicio \in columns THEN @ ELSE NaT,
                        !.Termino = IF Col_Termino \in columns THEN @ ELSE NaT]]

\* _calculate_work_duration of marco_cronograma and marco_modulo on a
\* non-empty table with the given columns
DuracaoObra(rows, columns) ==
    IF Col_Obra \notin columns
    THEN [status |-> "ok", col |-> [i \in 1..Len(rows) |-> None]]
    ELSE IF Col_Nome \notin columns
         THEN [status |-> "KeyError", col |-> <<>>]
         ELSE _calculate_work_duration(ComDatas(rows, columns))

\* the rows of a treated sheet: every target column the sheet lacks is
\* filled with the given value
Preenchidas(src, faltantes, valor, dur) ==
    [i \in 1..Len(src.rows) |->
        [linha |-> i, Arquivo |-> src.fonte,
         Duracao_obra |-> dur[i], preenchidas |-> faltantes, valor |-> valor]]

\* df[mask]: the rows whose position is in idxs, in their order
RECURSIVE Manter(_, _)
Manter(rows, idxs) ==
    IF rows = <<>> THEN <<>>
    ELSE (IF Head(rows).linha \in idxs THEN <<Head(rows)>> ELSE <<>>)
             \o Manter(Tail(rows), idxs)

AvisoErro(arquivo, erro) == [fonte |-> arquivo, aviso |-> erro, colunas |-> {}]

\* marco_cronograma._ensure_and_reorder
_ensure_and_reorder(src) ==
    LET columns == {_normalize_columns_cronograma(c) : c \in src.columns}
        faltantes == TARGET_COLS_cronograma \ columns
    IN IF src.rows = <<>> THEN [status |-> "ok", rows |-> <<>>, avisos |-> <<>>]
       ELSE CHOOSE r \in {IF dur.status # "ok"
                          THEN [status |-> dur.status, rows |-> <<>>, avisos |-> <<>>]
                          ELSE [status |-> "ok",
                                rows |-> Preenchidas(src, faltantes, "pd.NA", dur.col),
                                avisos |-> <<>>] :
                             dur \in {DuracaoObra(src.rows, columns)}} : TRUE

\* marco_modulo._process_single_file for a file of one sheet, then the
\* filter of processar_arquivos on the Modulo column
_process_single_file(src) ==
    LET columns == {_normalize_columns_modulo(c) : c \in src.columns}
        faltantes == COLUNAS_modulo \ columns
        comModulo == {i \in 1..Len(src.rows) :
                         _create_module_column(columns, src.rows[i].Nome) # <<>>}
    IN IF src.rows = <<>> THEN [status |-> "ok", rows |-> <<>>, avisos |-> <<>>]
       ELSE CHOOSE r \in {IF dur.status # "ok"
                          THEN [status |-> "ok", rows |-> <<>>,
                                avisos |-> <<AvisoErro(src.fonte, dur.status)>>]
                          ELSE [status |-> "ok",
                                rows |-> Manter(Preenchidas(src, faltantes, "", dur.col), comModulo),
                                avisos |-> <<>>] :
                             dur \in {DuracaoObra(src.rows, columns)}} : TRUE

\* marco_parede._add_periodo_construcao: the two columns it adds
_add_periodo_construcao(rows, columns) ==
    LET parede(i) == {j \in 1..Len(rows) :
                         rows[j].Obra = rows[i].Obra /\ Contains(rows[j].Nome, Pat_Parede)}
    IN IF Col_Obra \notin columns \/ Col_Nome \notin columns
       THEN [status |-> "ok", col |-> [i \in 1..Len(rows) |-> <<NaT, NaT>>]]
       ELSE IF Col_Inicio \notin columns \/ Col_Termino \notin columns
            THEN [status |-> "KeyError", col |-> <<>>]
            ELSE [status |-> "ok",
                  col |-> [i \in 1..Len(rows) |->
                             <<MinDate({rows[j].Inicio : j \in parede(i)}),
                               MaxDate({rows[j].Termino : j \in parede(i)})>>]]

\* marco_parede._ensure_and_reorder on one sheet, then the filter of
\* compilar_parede on the Nome column
_ensure_and_reorder_parede(src) ==
    LET columns == {_normalize_columns_parede(c) : c \in src.columns}
        faltantes == TARGET_COLS_parede \ columns
        deParede == {i \in 1..Len(src.rows) :
                        Col_Nome \in columns /\ Contains(src.rows[i].Nome, Pat_Parede)}
    IN IF src.rows = <<>> THEN [status |-> "ok", rows |-> <<>>, avisos |-> <<>>]
       ELSE CHOOSE r \in {IF pc_obra.status # "ok"
                          THEN [status |-> pc_obra.status, rows |-> <<>>, avisos |-> <<>>]
                          ELSE [status |-> "ok",
                                rows |-> Manter(Preenchidas(src, faltantes, "pd.NA", pc_obra.col), deParede),
                                avisos |-> <<>>] :
                             pc_obra \in {_add_periodo_construcao(src.rows, columns)}} : TRUE

(***************************************************************************)
(* Required-columns specification: a sheet of one report is drawn and the  *)
(* report treats it                                                         *)
(***************************************************************************)
\* the columns a drawn schedule sheet may lack
Droppable == {Col_Nome, Col_Obra, Col_Inicio, Col_NET}

MarcoRows ==
    {Marco("A", nome, Date(2024, 1, 15), Date(2024, 7, 10)) :
        nome \in {Nome_Alvenaria, Nome_TorreM01, Pat_Fundacao}}

MarcoTables == SeqsUpTo(MarcoRows, MaxDurRows)

Guias ==
    {[by |-> p, fonte |-> "a.xlsx", columns |-> CanonicalCols(p) \ d, rows |-> rows] :
        p \in {"marco_cronograma", "marco_modulo", "marco_parede"},
        d \in SUBSET Droppable, rows \in MarcoTables}
    \cup {[by |-> "curvas_prod", fonte |-> FonteNames[1], columns |-> t.columns,
           rows |-> t.rows] : t \in RawTables(MaxDurRows)}
    \cup {[by |-> "pp", fonte |-> FonteNamesPP[1], columns |-> t.columns,
           rows |-> t.rows] : t \in PPTables(MaxDurRows)}

NotTreated == [status |-> "pending"]

InitRequired ==
    /\ guia \in Guias
    /\ tratado = NotTreated
    /\ IdleParser /\ IdleHeader /\ IdleClosure /\ IdleStack /\ IdleDuration
    /\ IdleKeys /\ IdleIngest /\ IdleLimit /\ IdleCache

\* empilhar_curvas on the one sheet: line 221-224, an empty sheet is skipped
TratarCurvaVazia ==
    /\ tratado = NotTreated /\ guia.by = "curvas_prod"
    /\ guia.rows = <<>>
    /\ tratado' = [status |-> "ok", rows |-> <<>>, avisos |-> <<AvisoVazia(guia.fonte)>>]
    /\ UNCHANGED <<guia, parserVars, headerVars, closureVars, stackVars, durationVars,
                   keyVars, ingestVars, limitVars, cacheVars>>

\* empilhar_curvas on the one sheet: line 226-233
TratarCurva ==
    /\ tratado = NotTreated /\ guia.by = "curvas_prod"
    /\ guia.rows # <<>>
    /\ \E out \in {Tratados(guia)} :
       \E ups1 \in SUBSET TieRows1(out) :
         \E ups2 \in SUBSET TieRows2(out, ups1) :
            \E r \in {_tratar_curva(guia, ups1, ups2)} :
                tratado' = [status |-> "ok", rows |-> WithFonte(r.df, guia.fonte),
                            avisos |-> r.avisos]
    /\ UNCHANGED <<guia, parserVars, headerVars, closureVars, stackVars, durationVars,
                   keyVars, ingestVars, limitVars, cacheVars>>

\* stack_schedules_pp on the one sheet: line 147-153
TratarPP ==
    /\ tratado = NotTreated /\ guia.by = "pp"
    /\ \E r \in {selecionar_e_tratar_colunas_pp(guia)} :
            tratado' = [status |-> "ok", rows |-> WithFontePP(r.df, guia.fonte),
                        avisos |-> r.avisos]
    /\ UNCHANGED <<guia, parserVars, headerVars, closureVars, stackVars, durationVars,
                   keyVars, ingestVars, limitVars, cacheVars>>

\* marco_cronograma.processar_arquivos on the one sheet
TratarCronograma ==
    /\ tratado = NotTreated /\ guia.by = "marco_cronograma"
    /\ tratado' = _ensure_and_reorder(guia)
    /\ UNCHANGED <<guia, parserVars, headerVars, closureVars, stackVars, durationVars,
                   keyVars, ingestVars, limitVars, cacheVars>>

\* marco_modulo.processar_arquivos on the one sheet
TratarModulo ==
    /\ tratado = NotTreated /\ guia.by = "marco_modulo"
    /\ tratado' = _process_single_file(guia)
    /\ UNCHANGED <<guia, parserVars, headerVars, closureVars, stackVars, durationVars,
                   keyVars, ingestVars, limitVars, cacheVars>>

\* marco_parede.compilar_parede on the one sheet
TratarParede ==
    /\ tratado = NotTreated /\ guia.by = "marco_parede"
    /\ tratado' = _ensure_and_reorder_parede(guia)
    /\ UNCHANGED <<guia, parserVars, headerVars, closureVars, stackVars, durationVars,
                   keyVars, ingestVars, limitVars, cacheVars>>

NextRequired ==
    TratarCurvaVazia \/ TratarCurva \/ TratarPP \/ TratarCronograma \/ TratarModulo
        \/ TratarParede

SpecRequired == InitRequired /\ [][NextRequired]_vars

(***************************************************************************)
(* Claims about required columns                                           *)
(***************************************************************************)
Treated == tratado.status \notin {"idle", "pending"}

\* the headers of the sheet after the report's header normalization
Padronizadas ==
    CASE guia.by = "marco_cronograma" -> {_normalize_columns_cronograma(c) : c \in guia.columns}
      [] guia.by = "marco_modulo" -> {_normalize_columns_modulo(c) : c \in guia.columns}
      [] guia.by = "marco_parede" -> {_normalize_columns_parede(c) : c \in guia.columns}
      [] guia.by = "curvas_prod" -> {_padronizar_colunas(c) : c \in guia.columns}
      [] guia.by = "pp" -> {colunas_pp(c) : c \in guia.columns}

Ausentes == CanonicalCols(guia.by) \ Padronizadas

\* C11: in every report, a sheet with rows that lacks a required column after
\* header normalization adds no row to the consolidated table (no row with
\* the missing column filled in) and leaves a warning that names the missing
\* columns; the treatment does not raise.
C11_MissingColumnRejectsSource ==
    (Treated /\ guia.rows # <<>> /\ Ausentes # {})
        => /\ tratado.status = "ok"
           /\ tratado.rows = <<>>
           /\ \E k \in 1..Len(tratado.avisos) : tratado.avisos[k].colunas = Ausentes

(***************************************************************************)
(* Ingestion: a batch of uploaded files through the reading step of each   *)
(* report; marco_cronograma and marco_modulo read and treat a file in one  *)
(* worker task                                                              *)
(***************************************************************************)
MaxBatch == 2      \* most files of an enumerated batch

FileNames == <<"a.xlsx", "b.xlsx", "c.xlsx", "d.xlsx">>

\* what an uploaded file holds: nothing a reader can parse, or one sheet
Ilegivel == [legivel |-> FALSE, columns |-> {}, rows |-> <<>>]
Planilha(columns, rows) == [legivel |-> TRUE, columns |-> columns, rows |-> rows]

Contents ==
    {Ilegivel,
     Planilha(TARGET_COLS_cronograma, <<>>),
     Planilha(TARGET_COLS_cronograma,
              <<Marco("A", Nome_TorreM01, Date(2024, 1, 15), Date(2024, 7, 10))>>),
     Planilha(TARGET_COLS_cronograma,
              <<Marco("A", Nome_TorreM01, Date(2024, 1, 15), Date(2024, 7, 10)),
                Marco("B", Nome_TorreM01, Date(2024, 1, 15), Date(2024, 7, 10))>>),
     Planilha(TARGET_COLS_cronograma \ {Col_Nome},
              <<Marco("A", Nome_TorreM01, Date(2024, 1, 15), Date(2024, 7, 10))>>)}

Uploads ==
    {[i \in 1..Len(b) |-> [name |-> FileNames[i], legivel |-> b[i].legivel,
                           columns |-> b[i].columns, rows |-> b[i].rows]] :
        b \in SeqsUpTo(Contents, MaxBatch) \ {<<>>}}

\* the sheet of a file as the treatment of a report takes it
Guia(f) == [fonte |-> f.name, columns |-> f.columns, rows |-> f.rows]

\* the table a reader returns for the sheet of a file, under the key it is
\* stored at: the file name, followed by the sheet name when sheet is TRUE
Lida(f, sheet, columns) ==
    [arquivo |-> f.name, fonte |-> IF sheet THEN <<f.name, "Planilha1">> ELSE <<f.name>>,
     columns |-> columns, rows |-> f.rows]

Running(by) ==
    [by |-> by, at |-> "running", i |-> 1, feitas |-> {}, results |-> <<>>,
     avisos |-> <<>>, saida |-> <<>>, cached |-> {}]

InitIngest ==
    /\ lote \in Uploads
    /\ ing \in {Running(by) : by \in {"curvas_prod", "pp", "marco_cronograma", "marco_modulo",
                                       "marco_parede"}}
    /\ IdleParser /\ IdleHeader /\ IdleClosure /\ IdleStack /\ IdleDuration
    /\ IdleKeys /\ IdleRequired /\ IdleLimit /\ IdleCache

\* curvas_prod.ler_varios_excels_curvas, one file of the loop: read_excel is
\* not guarded, its exception leaves the function
LerCurva ==
    /\ ing.by = "curvas_prod" /\ ing.at = "running" /\ ing.i <= Len(lote)
    /\ IF lote[ing.i].legivel
       THEN ing' = [ing EXCEPT !.i = @ + 1,
                               !.results = Append(@, Lida(lote[ing.i], TRUE,
                                                          lote[ing.i].columns))]
       ELSE ing' = [ing EXCEPT !.at = "raised", !.results = <<>>]
    /\ UNCHANGED <<lote, parserVars, headerVars, closureVars, stackVars, durationVars,
                   keyVars, requiredVars, limitVars, cacheVars>>

\* marco_parede.ler_todas_linhas_excels, one file of the loop
LerParede ==
    /\ ing.by = "marco_parede" /\ ing.at = "running" /\ ing.i <= Len(lote)
    /\ IF lote[ing.i].legivel
       THEN ing' = [ing EXCEPT !.i = @ + 1,
                               !.results = Append(@, Lida(lote[ing.i], FALSE,
                                                          lote[ing.i].columns))]
       ELSE ing' = [ing EXCEPT !.i = @ + 1,
                               !.avisos = Append(@, AvisoErro(lote[ing.i].name, "Falha ao ler"))]
    /\ UNCHANGED <<lote, parserVars, headerVars, closureVars, stackVars, durationVars,
                   keyVars, requiredVars, limitVars, cacheVars>>

\* pp._read_excel_with_cache in a worker process, CACHE_DIR holding no entry
\* of the batch: the task of file k ends, and a parsed sheet is cached
TerminaPP(k) ==
    /\ ing.by = "pp" /\ ing.at = "running"
    /\ k \in 1..Len(lote) /\ k \notin ing.feitas
    /\ ing' = [ing EXCEPT !.feitas = @ \cup {k},
                          !.cached = IF lote[k].legivel THEN @ \cup {lote[k].name} ELSE @]
    /\ UNCHANGED <<lote, parserVars, headerVars, closureVars, stackVars, durationVars,
                   keyVars, requiredVars, limitVars, cacheVars>>

\* pp.ler_varios_excels_pp line 122-127: the futures are collected in the
\* order they were submitted; a task that raised is passed over
ColetaPP ==
    /\ ing.by = "pp" /\ ing.at = "running" /\ ing.i <= Len(lote)
    /\ ing.i \in ing.feitas
    /\ IF lote[ing.i].legivel
       THEN ing' = [ing EXCEPT !.i = @ + 1,
                               !.results =
                                   Append(@, Lida(lote[ing.i], TRUE,
                                                  {c \in lote[ing.i].columns :
                                                      Strip(c) \in REQUIRED_COLS_PP}))]
       ELSE ing' = [ing EXCEPT !.i = @ + 1]
    /\ UNCHANGED <<lote, parserVars, headerVars, closureVars, stackVars, durationVars,
                   keyVars, requiredVars, limitVars, cacheVars>>

\* tratado.insert(0, "Fonte", fonte): the rows of a table under its key
ComFonte(t) == [i \in 1..Len(t.rows) |-> [Fonte |-> t.fonte, linha |-> i]]

\* the rows of the tables of a dictionary, in the order of its keys
RECURSIVE Empilhadas(_)
Empilhadas(results) ==
    IF results = <<>> THEN <<>> ELSE ComFonte(Head(results)) \o Empilhadas(Tail(results))

\* the reading function returns its dictionary, whose order is the order the
\* stacking step takes the tables in
Retorna ==
    /\ ing.by \in {"curvas_prod", "pp", "marco_parede"}
    /\ ing.at = "running" /\ ing.i > Len(lote)
    /\ ing' = [ing EXCEPT !.at = "returned", !.saida = Empilhadas(ing.results)]
    /\ UNCHANGED <<lote, parserVars, headerVars, closureVars, stackVars, durationVars,
                   keyVars, requiredVars, limitVars, cacheVars>>

\* marco_cronograma._process_excel_file on one file
_process_excel_file(f) ==
    IF f.legivel
    THEN [arquivo |-> f.name, status |-> _ensure_and_reorder(Guia(f)).status,
          rows |-> _ensure_and_reorder(Guia(f)).rows, avisos |-> <<>>]
    ELSE [arquivo |-> f.name, status |-> "ok", rows |-> <<>>,
          avisos |-> <<AvisoErro(f.name, "Erro ao ler")>>]

\* marco_modulo._process_single_file on one file, with the rows of it that
\* the Modulo filter of processar_arquivos keeps
ProcessSingleFile(f) ==
    IF f.legivel
    THEN [arquivo |-> f.name, status |-> "ok",
          rows |-> _process_single_file(Guia(f)).rows,
          avisos |-> _process_single_file(Guia(f)).avisos]
    ELSE [arquivo |-> f.name, status |-> "ok", rows |-> <<>>,
          avisos |-> <<AvisoErro(f.name, "Erro")>>]

\* marco_cronograma.processar_arquivos line 148-151: the task of file k is
\* the next to complete and as_completed hands it over; fut.result() raises
\* what the task raised
CompletaCronograma(k) ==
    /\ ing.by = "marco_cronograma" /\ ing.at = "running"
    /\ k \in 1..Len(lote) /\ k \notin ing.feitas
    /\ \E r \in {_process_excel_file(lote[k])} :
          IF r.status = "ok"
          THEN ing' = [ing EXCEPT !.feitas = @ \cup {k},
                                  !.results = Append(@, r),
                                  !.avisos = @ \o r.avisos]
          ELSE ing' = [ing EXCEPT !.feitas = 1..Len(lote),
                                  !.at = "raised",
                                  !.results = <<>>,
                                  !.avisos = @ \o r.avisos]
    /\ UNCHANGED <<lote, parserVars, headerVars, closureVars, stackVars, durationVars,
                   keyVars, requiredVars, limitVars, cacheVars>>

\* marco_modulo.processar_arquivos line 138-142
CompletaModulo(k) ==
    /\ ing.by = "marco_modulo" /\ ing.at = "running"
    /\ k \in 1..Len(lote) /\ k \notin ing.feitas
    /\ \E r \in {ProcessSingleFile(lote[k])} :
          ing' = [ing EXCEPT !.feitas = @ \cup {k},
                             !.results = Append(@, r),
                             !.avisos = @ \o r.avisos]
    /\ UNCHANGED <<lote, parserVars, headerVars, closureVars, stackVars, durationVars,
                   keyVars, requiredVars, limitVars, cacheVars>>

\* pd.concat(..., ignore_index=True) of the tables in the order of the list
RECURSIVE ConcatRows(_)
ConcatRows(results) ==
    IF results = <<>> THEN <<>> ELSE Head(results).rows \o ConcatRows(Tail(results))

\* variant of Consolida: the results at hand are concatenated without waiting
\* for the tasks that are still running
Consolida_sem_esperar ==
    /\ ing.by \in {"marco_cronograma", "marco_modulo"}
    /\ ing.at = "running"
    /\ ing' = [ing EXCEPT !.at = "returned", !.saida = ConcatRows(ing.results)]
    /\ UNCHANGED <<lote, parserVars, headerVars, closureVars, stackVars, durationVars,
                   keyVars, requiredVars, limitVars, cacheVars>>

\* marco_cronograma.processar_arquivos line 163-169 and
\* marco_modulo.processar_arquivos line 148-149: the results are concatenated
\* in the order they were appended
Consolida ==
    /\ ing.by \in {"marco_cronograma", "marco_modulo"}
    /\ ing.at = "running" /\ ing.feitas = 1..Len(lote)
    /\ ing' = [ing EXCEPT !.at = "returned", !.saida = ConcatRows(ing.results)]
    /\ UNCHANGED <<lote, parserVars, headerVars, closureVars, stackVars, durationVars,
                   keyVars, requiredVars, limitVars, cacheVars>>

NextIngest ==
    \/ LerCurva
    \/ LerParede
    \/ \E k \in 1..MaxBatch : TerminaPP(k)
    \/ ColetaPP
    \/ Retorna
    \/ \E k \in 1..MaxBatch : CompletaCronograma(k)
    \/ \E k \in 1..MaxBatch : CompletaModulo(k)
    \/ Consolida

SpecIngest == InitIngest /\ [][NextIngest]_vars

(***************************************************************************)
(* Claims about the ingestion of a batch                                   *)
(***************************************************************************)
Finished == ing.at \in {"returned", "raised"}

Warned(name) == \E k \in 1..Len(ing.avisos) : ing.avisos[k].fonte = name

\* the treatment of the report raises on the sheet of the file
Falha(f) ==
    /\ f.legivel /\ f.rows # <<>>
    /\ ing.by \in {"marco_cronograma", "marco_modulo"}
    /\ DuracaoObra(f.rows, f.columns).status # "ok"

\* the rows the file adds to what the report returns when nothing fails
RowsOf(f) ==
    CASE ing.by = "marco_cronograma" -> _process_excel_file(f).rows
      [] ing.by = "marco_modulo" -> ProcessSingleFile(f).rows
      [] ing.by = "marco_parede" -> ComFonte(Lida(f, FALSE, f.columns))
      [] OTHER -> ComFonte(Lida(f, TRUE, f.columns))

InSaida(rows) == \A i \in 1..Len(rows) : \E k \in 1..Len(ing.saida) : ing.saida[k] = rows[i]

\* C14: when the reading step of a report has ended on a batch with a file
\* that cannot be read (every readable file being one the report can treat),
\* it has returned, each unreadable file has a warning and no table, and the
\* rows of every readable file are in what is returned.
C14_ReadFailureIsolated ==
    (/\ Finished
     /\ \E i \in 1..Len(lote) : ~lote[i].legivel
     /\ \A i \in 1..Len(lote) : ~Falha(lote[i]))
        => /\ ing.at = "returned"
           /\ \A i \in 1..Len(lote) :
                 IF lote[i].legivel
                 THEN InSaida(RowsOf(lote[i]))
                 ELSE /\ Warned(lote[i].name)
                      /\ \A k \in 1..Len(ing.results) :
                            ing.results[k].arquivo = lote[i].name => ing.results[k].rows = <<>>

\* C15: when processar_arquivos of marco_cronograma or marco_modulo has
\* ended on a batch with a readable file whose treatment raises, it has
\* returned, every task has run, the failing file has a diagnostic and the
\* rows of the other files are in the consolidated table.
C15_TaskFailureIsolated ==
    (/\ Finished
     /\ ing.by \in {"marco_cronograma", "marco_modulo"}
     /\ \E i \in 1..Len(lote) : Falha(lote[i]))
        => /\ ing.at = "returned"
           /\ ing.feitas = 1..Len(lote)
           /\ \A i \in 1..Len(lote) :
                 IF Falha(lote[i]) THEN Warned(lote[i].name) ELSE InSaida(RowsOf(lote[i]))

\* the rows of the files in the order the files were given
RECURSIVE EmOrdem(_)
EmOrdem(files) ==
    IF files = <<>> THEN <<>>
    ELSE (IF Head(files).legivel THEN RowsOf(Head(files)) ELSE <<>>) \o EmOrdem(Tail(files))

\* C16: the rows of the table a report returns for a batch are in one order,
\* that of the files of the batch, whatever the order the worker tasks
\* completed in.
C16_OrderIndependentOfCompletion ==
    (ing.at = "returned" /\ ing.by \in {"pp", "marco_cronograma", "marco_modulo"})
        => ing.saida = EmOrdem(lote)

(***************************************************************************)
(* File limit: a batch of uploaded files handed to each report             *)
(***************************************************************************)
MAX_FILES_curvas == 300
MAX_FILES_pp == 1000
MAX_FILES_cronograma == 1000
MAX_FILES_modulo == 1000
MAX_FILES_parede == 300

MAX_FILES(by) ==
    CASE by = "curvas_prod" -> MAX_FILES_curvas
      [] by = "pp" -> MAX_FILES_pp
      [] by = "marco_cronograma" -> MAX_FILES_cronograma
      [] by = "marco_modulo" -> MAX_FILES_modulo
      [] by = "marco_parede" -> MAX_FILES_parede

Margin == 6        \* the enumerated batches have MAX_FILES files, give or take Margin

\* files[:n]
Primeiros(files, n) == SubSeq(files, 1, IF Len(files) < n THEN Len(files) ELSE n)

NotRead(by) == [by |-> by, status |-> "pending", arquivos |-> <<>>]

\* a batch is the list of its files, each file standing for itself
InitLimit ==
    /\ lidos \in {NotRead(by) : by \in {"curvas_prod", "pp", "marco_cronograma", "marco_modulo",
                                         "marco_parede"}}
    /\ enviados \in {[i \in 1..n |-> i] :
                        n \in (MAX_FILES(lidos.by) - Margin)..(MAX_FILES(lidos.by) + Margin)}
    /\ IdleParser /\ IdleHeader /\ IdleClosure /\ IdleStack /\ IdleDuration
    /\ IdleKeys /\ IdleRequired /\ IdleIngest /\ IdleCache

\* curvas_prod.render_tab line 313-319: a batch over the limit is refused,
\* any other is read by ler_varios_excels_curvas
LimiteCurvas ==
    /\ lidos = NotRead("curvas_prod")
    /\ lidos' = IF Len(enviados) > MAX_FILES_curvas
                THEN [lidos EXCEPT !.status = "rejected"]
                ELSE [lidos EXCEPT !.status = "processed",
                                   !.arquivos = Primeiros(enviados, MAX_FILES_curvas)]
    /\ UNCHANGED <<enviados, parserVars, headerVars, closureVars, stackVars, durationVars,
                   keyVars, requiredVars, ingestVars, cacheVars>>

\* pp.ler_varios_excels_pp line 117
LimitePP ==
    /\ lidos = NotRead("pp")
    /\ lidos' = [lidos EXCEPT !.status = "processed",
                              !.arquivos = Primeiros(enviados, MAX_FILES_pp)]
    /\ UNCHANGED <<enviados, parserVars, headerVars, closureVars, stackVars, durationVars,
                   keyVars, requiredVars, ingestVars, cacheVars>>

\* marco_cronograma.processar_arquivos line 137-138
LimiteCronograma ==
    /\ lidos = NotRead("marco_cronograma")
    /\ lidos' = [lidos EXCEPT !.status = "processed",
                              !.arquivos = Primeiros(enviados, MAX_FILES_cronograma)]
    /\ UNCHANGED <<enviados, parserVars, headerVars, closureVars, stackVars, durationVars,
                   keyVars, requiredVars, ingestVars, cacheVars>>

\* marco_modulo.processar_arquivos line 112-121
LimiteModulo ==
    /\ lidos = NotRead("marco_modulo")
    /\ lidos' = [lidos EXCEPT !.status = "processed",
                              !.arquivos = Primeiros(enviados, MAX_FILES_modulo)]
    /\ UNCHANGED <<enviados, parserVars, headerVars, closureVars, stackVars, durationVars,
                   keyVars, requiredVars, ingestVars, cacheVars>>

\* marco_parede.ler_todas_linhas_excels line 171
LimiteParede ==
    /\ lidos = NotRead("marco_parede")
    /\ lidos' = [lidos EXCEPT !.status = "processed",
                              !.arquivos = Primeiros(enviados, MAX_FILES_parede)]
    /\ UNCHANGED <<enviados, parserVars, headerVars, closureVars, stackVars, durationVars,
                   keyVars, requiredVars, ingestVars, cacheVars>>

NextLimit == LimiteCurvas \/ LimitePP \/ LimiteCronograma \/ LimiteModulo \/ LimiteParede

SpecLimit == InitLimit /\ [][NextLimit]_vars

(***************************************************************************)
(* Claims about the file limit                                             *)
(***************************************************************************)
\* C17: once a report has handled a batch of more than its MAX_FILES files,
\* the batch is refused and no file of it has been processed.
C17_OverLimitBatchRejected ==
    (lidos.by # "idle" /\ lidos.status # "pending" /\ Len(enviados) > MAX_FILES(lidos.by))
        => lidos.status = "rejected" /\ lidos.arquivos = <<>>

(***************************************************************************)
(* The parquet cache of the weighted-plan report: pp._read_excel_with_cache *)
(* on one file, CACHE_DIR holding at most an entry under the file's name   *)
(***************************************************************************)
MaxSheets == 2     \* most sheets of an enumerated workbook

SheetNames == {"Planilha1", "Cronograma"}

SheetTables ==
    {[columns |-> REQUIRED_COLS_PP, rows |-> <<>>],
     [columns |-> REQUIRED_COLS_PP,
      rows |-> <<PPRow(Text(<<"1">>), Nome_Obra, Text(<<"1", ",", "5">>))>>],
     [columns |-> REQUIRED_COLS_PP \cup {Col_Obra},
      rows |-> <<PPRow(Text(<<"2">>), Nome_Modulo1, Text(<<"1", ",", "5">>))>>],
     [columns |-> {<<" ">> \o Col_NET, Col_Nome, Col_Duracao},
      rows |-> <<PPRow(Text(<<"4">>), Nome_PreProjeto, Blank)>>]}

Sheets == [nome : SheetNames, df : SheetTables]

\* the uploaded bytes: a workbook of one or more sheets, or nothing readable
Workbooks ==
    {[name |-> "a.xlsx", legivel |-> TRUE, sheets |-> s] :
        s \in {w \in SeqsUpTo(Sheets, MaxSheets) :
                  w # <<>> /\ \A i, j \in 1..Len(w) : i # j => w[i].nome # w[j].nome}}
    \cup {[name |-> "a.xlsx", legivel |-> FALSE, sheets |-> <<>>]}

\* read_excel(..., usecols=lambda c: c.strip() in REQUIRED_COLS_PP)
ReadSheet(df) ==
    [columns |-> {c \in df.columns : Strip(c) \in REQUIRED_COLS_PP}, rows |-> df.rows]

\* CACHE_DIR / f"{file_name}.parquet": no entry, an entry that read_parquet
\* can load, or an entry it cannot
Absent == [state |-> "absent", df |-> <<>>]
Corrupt == [state |-> "corrupt", df |-> <<>>]
Valid(df) == [state |-> "valid", df |-> <<df>>]

Entries == {Absent, Corrupt} \cup {Valid(ReadSheet(df)) : df \in SheetTables}

\* what df.to_parquet(cache_name) does: it writes the entry, or it raises and
\* leaves the entry as it was, or it raises and leaves a broken entry
WriteOutcomes == {"written", "failed", "failed_partial"}

Written(entry, df, outcome) ==
    CASE outcome = "written" -> Valid(df)
      [] outcome = "failed" -> entry
      [] outcome = "failed_partial" -> Corrupt

Stored(f, sheet, df, lido, escrito, entry) ==
    [status |-> "ok", file |-> f, key |-> <<f.name, sheet>>, df |-> <<df>>,
     lido |-> lido, escrito |-> escrito, cache |-> entry]

Raised(f, lido, entry) ==
    [status |-> "raised", file |-> f, key |-> <<>>, df |-> <<>>,
     lido |-> lido, escrito |-> "none", cache |-> entry]

\* variant of _read_excel_with_cache with no try around read_parquet
_read_excel_with_cache_unguarded(f, entry, outcome) ==
    IF entry.state = "valid"
    THEN Stored(f, "Planilha1", entry.df[1], "hit", "none", entry)
    ELSE IF entry.state = "corrupt" THEN Raised(f, "failed", entry)
    ELSE IF ~f.legivel THEN Raised(f, "absent", entry)
    ELSE Stored(f, f.sheets[1].nome, ReadSheet(f.sheets[1].df), "absent",
                outcome, Written(entry, ReadSheet(f.sheets[1].df), outcome))

\* pp._read_excel_with_cache: what it returns or raises, and the entry it
\* leaves behind
_read_excel_with_cache(f, entry, outcome) ==
    IF entry.state = "valid"
    THEN Stored(f, "Planilha1", entry.df[1], "hit", "none", entry)
    ELSE IF ~f.legivel
         THEN Raised(f, IF entry.state = "corrupt" THEN "failed" ELSE "absent", entry)
         ELSE Stored(f, f.sheets[1].nome, ReadSheet(f.sheets[1].df),
                     IF entry.state = "corrupt" THEN "failed" ELSE "absent",
                     outcome, Written(entry, ReadSheet(f.sheets[1].df), outcome))

NotYetRead(f) == [status |-> "pending", file |-> f]

InitCache ==
    /\ cache \in Entries
    /\ leitura \in {NotYetRead(f) : f \in Workbooks}
    /\ IdleParser /\ IdleHeader /\ IdleClosure /\ IdleStack /\ IdleDuration
    /\ IdleKeys /\ IdleRequired /\ IdleIngest /\ IdleLimit

ReadExcelWithCache ==
    /\ leitura.status = "pending"
    /\ \E outcome \in WriteOutcomes :
          \E r \in {_read_excel_with_cache(leitura.file, cache, outcome)} :
              /\ leitura' = [status |-> r.status, file |-> r.file, key |-> r.key, df |-> r.df,
                             lido |-> r.lido, escrito |-> r.escrito, antes |-> cache]
              /\ cache' = r.cache
    /\ UNCHANGED <<parserVars, headerVars, closureVars, stackVars, durationVars,
                   keyVars, requiredVars, ingestVars, limitVars>>

NextCache == ReadExcelWithCache

SpecCache == InitCache /\ [][NextCache]_vars

(***************************************************************************)
(* Claims about the cache                                                  *)
(***************************************************************************)
WasRead == leitura.status \in {"ok", "raised"}

\* C20: after _read_excel_with_cache on a workbook that can be parsed, the
\* call has returned whatever the entry of the cache was and whatever became
\* of the write of the entry; when the entry was there and could not be
\* loaded, what is returned is the first sheet parsed from the bytes, under
\* the file's name and that sheet's name.
C20_CacheIsOpportunistic ==
    (WasRead /\ leitura.file.legivel)
        => /\ leitura.status = "ok"
           /\ leitura.antes.state = "corrupt"
                 => /\ leitura.key = <<leitura.file.name, leitura.file.sheets[1].nome>>
                    /\ leitura.df = <<ReadSheet(leitura.file.sheets[1].df)>>

C20_Witness ==
    /\ WasRead /\ leitura.file.legivel
    /\ leitura.antes.state = "corrupt"
    /\ leitura.escrito = "failed_partial"
    /\ leitura.status = "ok"
    /\ leitura.df[1].rows # <<>>

(***************************************************************************)
(* Claims about the residual of the closure of one group                   *)
(***************************************************************************)
\* the values of the group after rounding and rescaling, the rounding ties
\* resolved as ups1 and ups2 say
Reescalados(ups1, ups2) == Corrigir(Arredondar(grupo, ups1), ups2)

\* the ways the ties of the first and of the second rounding can be resolved
Ties1 == SUBSET TiesArredondar(grupo)
Ties2(ups1) == SUBSET TiesCorrigir(Arredondar(grupo, ups1))

\* C23: the closed group is the rounded and rescaled group with the whole
\* residual (1.000 minus its sum) added to one member, the first of the
\* largest members; every other member keeps its rounded and rescaled value.
C23_ResidualToFirstLargest ==
    Closed =>
        \E ups1 \in Ties1 : \E ups2 \in Ties2(ups1) :
            \E r \in {Reescalados(ups1, ups2)} :
                \E m \in {i \in 1..Len(r) :
                             /\ \A j \in 1..Len(r) : r[j] <= r[i]
                             /\ \A j \in 1..(i - 1) : r[j] < r[i]} :
                    /\ Len(fechado) = Len(r)
                    /\ fechado[m] = r[m] + (1000 - Sum(r))
                    /\ \A j \in 1..Len(r) : j # m => fechado[j] = r[j]

\* three equal members and a residual of 0.001
C23_Witness ==
    /\ Closed
    /\ grupo = <<Dec(333, 3), Dec(333, 3), Dec(333, 3)>>
    /\ fechado = <<334, 333, 333>>

\* C28: a group of non-negative values is closed to values that are all
\* between 0 and 1.000, whatever the number of its members.
C28_ClosedValuesInRange ==
    (Closed /\ \A i \in 1..Len(grupo) : NonNegative(grupo[i]))
        => \A i \in 1..Len(fechado) : fechado[i] >= 0 /\ fechado[i] <= 1000

\* C29: whatever the rounding ties, the group sums to exactly 1.000 once the
\* residual is pushed, the final guard changes nothing, and the closed group
\* is the group as the push left it.
C29_GuardNeverTaken ==
    Closed =>
        /\ \A ups1 \in Ties1 : \A ups2 \in Ties2(ups1) :
              \E a \in {AjusteFino(Reescalados(ups1, ups2))} :
                  Sum(a) = 1000 /\ GarantiaFinal(a) = a
        /\ \E ups1 \in Ties1 : \E ups2 \in Ties2(ups1) :
              fechado = AjusteFino(Reescalados(ups1, ups2))

\* a group whose rescaled values are far from 1.000: all zero
C29_Witness ==
    /\ Closed
    /\ Len(grupo) >= 2
    /\ \A i \in 1..Len(grupo) : IsZeroOrMissing(grupo[i])
    /\ Abs(Sum(Reescalados({}, {})) - 1000) > 1
    /\ Sum(fechado) = 1000

(***************************************************************************)
(* Claims about the two closure passes of empilhar_curvas                  *)
(***************************************************************************)
\* the VPObra values of the rows of a group, in the order of the table
RECURSIVE VPsOf(_, _)
VPsOf(df, key) ==
    IF df = <<>> THEN <<>>
    ELSE (IF CurveKey(Head(df)) = key THEN <<Head(df).VPObra>> ELSE <<>>)
             \o VPsOf(Tail(df), key)

\* C27: the closure changes nothing in a group it has already closed: in the
\* table returned by empilhar_curvas, every group whose rows all come from
\* one source has the VPObra values the closure of that source gave it.
C27_ClosureIdempotent ==
    Done => \A key \in KeysOf(stacked) :
                \A n \in 1..Len(emp) :
                    FontesOfKey(stacked, key) = {emp[n][1].Fonte}
                        => VPsOf(stacked, key) = VPsOf(emp[n], key)

\* two sources, and a group of two rows of the second, read as 0.333 each and
\* closed to 0.500 each by the closure of the source
C27_Witness ==
    /\ Done
    /\ Len(emp) = 2
    /\ \E key \in KeysOf(stacked) :
          /\ FontesOfKey(stacked, key) = {emp[2][1].Fonte}
          /\ \A i \in 1..Len(fontes[2].rows) :
                 fontes[2].rows[i].VPObra = Text(<<"0", ",", "3", "3", "3">>)
          /\ VPsOf(stacked, key) = <<500, 500>>

(***************************************************************************)
(* Claims about the order of the stacked curve table                       *)
(***************************************************************************)
\* the composite key the stacked table is sorted by
OrdKey(row) == [k \in 1..Len(ord_cols) |-> Field(row, ord_cols[k])]

\* the rows of the table that have the composite key, in the order of the table
RECURSIVE RowsWithOrdKey(_, _)
RowsWithOrdKey(df, key) ==
    IF df = <<>> THEN <<>>
    ELSE (IF OrdKey(Head(df)) = key THEN <<Head(df)>> ELSE <<>>)
             \o RowsWithOrdKey(Tail(df), key)

\* the concatenation of the accepted sources, closed, as it is before the sort
Concatenadas ==
    {_ajustar_vp_obra_com_3_decimais(Floats(Concat(emp)), {}, ups2) :
        ups2 \in SUBSET TieRows2(Floats(Concat(emp)), {})}

\* C24: the non-empty table returned by empilhar_curvas is in ascending order
\* of (SimulacaoId, IdEmpreendimento, Obra, IdModulo, DataReferencia), and
\* the rows of one composite key are in the order they have in the
\* concatenation of the sources.
C24_SortedAndStable ==
    (Done /\ stacked # <<>>)
        => /\ \A i, j \in 1..Len(stacked) : i < j => ~Less(stacked[j], stacked[i])
           /\ \E t \in Concatenadas :
                 /\ Len(t) = Len(stacked)
                 /\ \A i \in 1..Len(t) :
                       RowsWithOrdKey(stacked, OrdKey(t[i])) = RowsWithOrdKey(t, OrdKey(t[i]))

\* the concatenation is out of order, and two rows of one composite key, of
\* two sources, are in the returned table
C24_Witness ==
    /\ Done
    /\ \E p, q \in 1..Len(Concat(emp)) : p < q /\ Less(Concat(emp)[q], Concat(emp)[p])
    /\ \E i, j \in 1..Len(stacked) :
          /\ i < j
          /\ OrdKey(stacked[i]) = OrdKey(stacked[j])
          /\ stacked[i].Fonte = FonteNames[1] /\ stacked[j].Fonte = FonteNames[2]

(***************************************************************************)
(* Claims about the rows _tratar_curva keeps                               *)
(***************************************************************************)
\* the source of the batch that has the name
FonteDe(nome) == CHOOSE s \in 1..Len(fontes) : fontes[s].fonte = nome

\* the sources the loop of empilhar_curvas has gone through that have every
\* required column and at least one row
Aceitas ==
    {s \in 1..Len(fontes) :
        /\ s < pc.i
        /\ fontes[s].rows # <<>>
        /\ CURVE_REQUIRED_COLS \subseteq {_padronizar_colunas(c) : c \in fontes[s].columns}}

\* the parsed rows of the source, 0.0 in place of every Missing VPObra
ComZeros(src) ==
    [i \in 1..Len(src.rows) |->
        [ParseRow(src.rows[i]) EXCEPT
            !.VPObra = IF ParseRow(src.rows[i]).VPObra = NA THEN Dec(0, 0) ELSE @]]

\* C25: for every source with all the required columns and at least one row,
\* _tratar_curva returns as many rows as the source has, each row at its
\* place, and a VPObra cell that is not a number counts as 0.0 in the
\* closure of its group.
C25_UnparseableCellKeepsRow ==
    /\ \A s \in Aceitas : \E n \in 1..Len(emp) : emp[n][1].Fonte = fontes[s].fonte
    /\ \A n \in 1..Len(emp) :
          \E src \in {fontes[FonteDe(emp[n][1].Fonte)]} :
              /\ Len(emp[n]) = Len(src.rows)
              /\ \A i \in 1..Len(emp[n]) :
                    /\ emp[n][i].Obra = src.rows[i].Obra
                    /\ emp[n][i].Fonte = src.fonte
              /\ \E ups1 \in SUBSET TieRows1(ComZeros(src)) :
                    \E ups2 \in SUBSET TieRows2(ComZeros(src), ups1) :
                        emp[n] = WithFonte(_ajustar_vp_obra_com_3_decimais(ComZeros(src),
                                                                           ups1, ups2),
                                           src.fonte)

\* a source of two rows of one group, the first with a VPObra cell that is a
\* text and no number: both rows are kept, 0.000 and 1.000
C25_Witness ==
    /\ Len(emp) = 1
    /\ fontes[1].rows = <<RawRow(1, SemNumero), RawRow(1, Text(<<"2", "0", "%">>))>>
    /\ _parse_number_br_pct(SemNumero) = NA
    /\ Len(emp[1]) = 2
    /\ emp[1][1].VPObra = 0 /\ emp[1][2].VPObra = 1000

(***************************************************************************)
(* Claims about the accounting of the sources of a stacked batch           *)
(***************************************************************************)
InOkList(nome) == \E k \in 1..Len(ok_list) : ok_list[k] = nome

InWarnList(nome) == \E k \in 1..Len(warn_list) : warn_list[k].fonte = nome

\* C30: after empilhar_curvas or stack_schedules_pp has returned, every
\* source of the batch is either in the accepted-source list, and then has a
\* row tagged with its name in the returned table, or named by a warning,
\* never both and never neither.
C30_EverySourceAccounted ==
    Returned =>
        \A i \in 1..Len(fontes) :
            /\ InOkList(fontes[i].fonte) # InWarnList(fontes[i].fonte)
            /\ InOkList(fontes[i].fonte)
                  => \E k \in 1..Len(stacked) : stacked[k].Fonte = fontes[i].fonte

(***************************************************************************)
(* Claims about the moment the results of the worker tasks are aggregated  *)
(***************************************************************************)
WorkerPool == {"pp", "marco_cronograma", "marco_modulo"}

\* the step that ends the collection of the results and hands them to the
\* aggregation is taken with every task of the batch finished
AggregatesWhenAllDone ==
    (ing.by \in WorkerPool /\ ing.at = "running" /\ ing'.at = "returned")
        => ing.feitas = 1..Len(lote)

\* what is aggregated holds the rows of every file of the batch
NothingLeftOut ==
    (ing.by \in WorkerPool /\ ing.at = "returned")
        => /\ \A i \in 1..Len(lote) : lote[i].legivel => InSaida(RowsOf(lote[i]))
           /\ ing.by # "pp" => Len(ing.results) = Len(lote)

\* C21: in the reports that read their files in a worker pool, the per-file
\* tables are concatenated only once every submitted task has finished, and
\* the consolidated table holds the rows of every file of the batch.
C21_AggregationAfterAllTasks == [][AggregatesWhenAllDone]_vars /\ []NothingLeftOut

\* two files with rows, the task of the second completing first
C21_Witness ==
    /\ ing.by = "marco_cronograma" /\ ing.at = "returned"
    /\ Len(lote) = 2
    /\ ing.feitas = {1, 2}
    /\ ing.results[1].arquivo = lote[2].name
    /\ ing.results[1].rows # <<>> /\ ing.results[2].rows # <<>>
    /\ Len(ing.saida) = Len(ing.results[1].rows) + Len(ing.results[2].rows)

(***************************************************************************)
(* Claims about what the cached reader returns                             *)
(***************************************************************************)
\* the mapping _read_excel_with_cache returns: one key and its table
Devolvido == {[key |-> leitura.key, df |-> leitura.df[1]]}

\* C22: the mapping returned for a file that was read successfully has, for
\* every sheet of the file, that sheet's table under the key of the file's
\* name and the sheet's name.
C22_OneEntryPerSheet ==
    (leitura.status = "ok" /\ leitura.file.legivel)
        => \A s \in 1..Len(leitura.file.sheets) :
               [key |-> <<leitura.file.name, leitura.file.sheets[s].nome>>,
                df |-> ReadSheet(leitura.file.sheets[s].df)] \in Devolvido

\* a fresh parse of the bytes of the file: the first sheet under its name
FreshParse(f) ==
    [key |-> <<f.name, f.sheets[1].nome>>, df |-> ReadSheet(f.sheets[1].df)]

\* C26: what _read_excel_with_cache returns for a file that can be parsed is
\* what a fresh parse of the bytes gives, the same key and the same table,
\* whether or not the cache held an entry under the file's name, whatever
\* file that entry was written from.
C26_CacheTransparent ==
    (leitura.status = "ok" /\ leitura.file.legivel) => Devolvido = {FreshParse(leitura.file)}

====
